---- MODULE Spec2Model ----
(***************************************************************************)
(* VibeSheet: Spotify "currently playing" -> Google Sheets mirror.         *)
(*                                                                         *)
(* Two groups of state are modelled:                                       *)
(*   - the credential side: the tokens file, the TokenCacheManager in      *)
(*     front of it and ensure_valid_token (auth/);                         *)
(*   - the sync side: sync_all_users / sync_single_user, the per-user      *)
(*     fetch tasks and GoogleSheetsService.batch_update with its           *)
(*     SheetCache (services/, sheets/).                                    *)
(* A third group is the periodic driver of utils/scheduler.py.             *)
(* SpecAuth exercises the credential side with one caller at a time.       *)
(* SpecStore is the TokenCacheManager alone, with a put whose write fails. *)
(* SpecDriver runs the scheduler: start, stop, triggers and job ends.      *)
(* SpecSync runs sync cycles and single-user syncs one after another.      *)
(* SpecRace lets the scheduler's cycle and a request handler's sync        *)
(* overlap, as the scheduler thread and the web server's threads do.       *)
(* SpecFetch is SpecSync over the answers of the playback API, items with  *)
(* missing fields included.                                                *)
(* SpecPuts runs refreshes and login saves on two threads, SpecReaders     *)
(* runs readers of the token cache on two threads.                         *)
(* SpecPool runs the fetch pool under two cycles.                          *)
(* SpecCount is SpecSync over more sets of users, the empty one included.  *)
(* SpecTtl runs get, put and invalidate of the token cache over time.      *)
(* SpecCtor runs the constructions of TokenCacheManager on two threads.    *)
(***************************************************************************)
EXTENDS Integers, Sequences, FiniteSets, TLC

(***************************************************************************)
(* Program constants                                                       *)
(***************************************************************************)
\* ensure_valid_token(user_id, refresh_buffer_sec=300)
REFRESH_BUFFER_SEC == 300
\* TokenCacheManager.__new__(cls, tokens_file, reload_interval=60)
RELOAD_INTERVAL == 60
\* SheetCache.__init__(self, ttl=30)
SHEET_CACHE_TTL == 30
\* ThreadPoolExecutor(max_workers=10, thread_name_prefix="SpotifySync")
MAX_WORKERS == 10
\* as_completed(futures, timeout=30)
AS_COMPLETED_TIMEOUT == 30
\* future.result(timeout=5)
RESULT_TIMEOUT == 5

(***************************************************************************)
(* Bounds of the model                                                     *)
(***************************************************************************)
\* time.time() when the process starts (any value far above the cache ttl)
StartTime == 1000
\* how many seconds the clock may advance in one behaviour
MaxElapsed == 62
\* the two clock steps: together they reach 30, 31, 60, 61, 62 seconds
TickShort == 30
TickLong == 31

\* seconds a fetch task takes: within the per-task timeout, between the two
\* timeouts, beyond the overall wait
FastSeconds == 1
SlowSeconds == 6
HungSeconds == 31
\* sync operations (cycles and single-user syncs) started in one behaviour
MaxSyncs == 2

UserIds == {"ana", "bob", "cy"}
\* users that can hold a record when the process starts
InitialUsers == {"ana", "bob"}

AccessTokens == {"at1"}
RefreshTokens == {"rt1"}
\* expires_in values the provider may answer with
Lifetimes == {REFRESH_BUFFER_SEC + TickShort}
\* expires_at - StartTime of the records on file at start: one that reaches
\* 1, 0 and below as the clock steps, one that reaches the buffer's edge
ExpiryOffsets == {TickLong, REFRESH_BUFFER_SEC + TickShort}

TickSteps == {TickShort, TickLong}
\* how long the provider round-trip may take
Delays == {0, TickShort}

(***************************************************************************)
(* Values                                                                  *)
(***************************************************************************)
\* Python's None where a dict is expected
None == [none |-> TRUE]
\* a key the provider's answer does not carry
Absent == "absent"

\* the empty dict
EmptyMap == [u \in {} |-> None]

\* tokens[user_id] = token_info on a dict
DictSet(d, k, v) == [x \in (DOMAIN d) \cup {k} |-> IF x = k THEN v ELSE d[x]]

\* d without the key k
Without(d, k) == [f \in (DOMAIN d) \ {k} |-> d[f]]

\* a token_info dict as spotipy stores it (the fields the program reads)
TokenInfo(a, r, e) == [access_token |-> a, refresh_token |-> r, expires_at |-> e]

VARIABLES
    now,             \* int(time.time())
    tokens_file,     \* contents of auth/tokens.json (user_id -> token_info)
    cache,           \* TokenCacheManager._cache
    last_load_time,  \* TokenCacheManager._last_load_time
    last,            \* the last credential operation, with what it returned
    sheet,           \* the worksheet: a sequence of rows, row 1 the header
    user_index,      \* SheetCache.user_index
    last_update,     \* SheetCache.last_update
    remote,          \* per user: what the token path and the Spotify API answer
                     \* (fixed in a behaviour: the remote state does not change)
    sync,            \* per thread: the sync operation it is running
    overlap,         \* whether a sync may start while another thread runs one
    ledger,          \* the sync operations that have ended, in order
    driver,          \* utils/scheduler.py: the scheduler, its job and _metrics
    callers,         \* per thread: the credential call it is inside
    audit,           \* history of the credential calls
    pool,            \* sync_service._executor: its queue and its workers
    singleton        \* TokenCacheManager._instance, _lock and the constructions

credVars == <<tokens_file, cache, last_load_time, last>>
syncVars == <<sheet, user_index, last_update, remote, sync, overlap, ledger>>
driverVars == <<driver>>
callerVars == <<callers, audit>>
poolVars == <<pool>>
ctorVars == <<singleton>>
vars == <<now, tokens_file, cache, last_load_time, last,
          sheet, user_index, last_update, remote, sync, overlap, ledger, driver,
          callers, audit, pool, singleton>>

(***************************************************************************)
(* TokenCacheManager (auth/token_cache_manager.py)                         *)
(* A cache state is [cache, last_load_time]; the file is passed beside it. *)
(***************************************************************************)
CacheState(c, t) == [cache |-> c, last_load_time |-> t]

should_reload(cs, t) == (t - cs.last_load_time) > RELOAD_INTERVAL

\* load(): the cached map while it is non-empty and fresh, else a disk load
load(cs, file, t) ==
    IF (DOMAIN cs.cache # {}) /\ ~should_reload(cs, t)
    THEN [cs |-> cs, tokens |-> cs.cache, disk_loads |-> 0]
    ELSE [cs |-> CacheState(file, t), tokens |-> file, disk_loads |-> 1]

\* save(tokens): disk first, then memory
save(tokens, t) ==
    [cs |-> CacheState(tokens, t), file |-> tokens]

invalidate_cache(cs) == CacheState(cs.cache, 0)

\* save(tokens) when the write to disk raises (lines 78-79): memory is not
\* reached; open(..., 'w') may already have truncated the file, which then
\* holds no record
save_fails(cs, file, truncated) ==
    [cs |-> cs, file |-> IF truncated THEN EmptyMap ELSE file]

(***************************************************************************)
(* auth/spotify_token_manager.py                                           *)
(***************************************************************************)
\* save_user_token: load_all_tokens, tokens[user_id] = token_info, save
save_user_token_drops_others(cs, file, t, user_id, token_info) ==
    save(DictSet(EmptyMap, user_id, token_info), t)

save_user_token(cs, file, t, user_id, token_info) ==
    save(DictSet(load(cs, file, t).tokens, user_id, token_info), t)

\* spotipy's SpotifyOAuth.refresh_access_token as the program uses it: the
\* provider's answer resp = [access_token, refresh_token or None, expires_in]
\* becomes a token_info with expires_at added and the old refresh_token kept
\* when the answer carries none.
refresh_access_token_forgets(refresh_token, resp, t) ==
    TokenInfo(resp.access_token, resp.refresh_token, t + resp.expires_in)

refresh_access_token(refresh_token, resp, t) ==
    TokenInfo(resp.access_token,
              IF resp.refresh_token = Absent THEN refresh_token ELSE resp.refresh_token,
              t + resp.expires_in)

\* line 97: if expires_in >= refresh_buffer_sec: return token_info
still_valid_strict(expires_in, buffer) == expires_in > buffer

still_valid(expires_in, buffer) == expires_in >= buffer

\* line 115: if expires_in > 0: return token_info
usable_after_failed_refresh_incl_zero(expires_in) == expires_in >= 0

usable_after_failed_refresh_never(expires_in) == FALSE

usable_after_failed_refresh(expires_in) == expires_in > 0

\* The outcome of ensure_valid_token(user_id, buffer) called at time t, when
\* the provider answers resp (None: the round-trip raises) after delay
\* seconds.  raised is "" for a normal return.
Outcome(raised, rec, cs, file, t, calls, writes) ==
    [raised |-> raised, returned |-> rec, cs |-> cs, file |-> file, t |-> t,
     provider_calls |-> calls, store_writes |-> writes]

\* get_user_token, lines 46-49: tokens.get(user_id) is None -> raise ValueError
not_authenticated_returns_none(cs, file, t) ==
    Outcome("", None, cs, file, t, 0, 0)

not_authenticated(cs, file, t) ==
    Outcome("ValueError", None, cs, file, t, 0, 0)

ensure_valid_token(cs, file, t, user_id, buffer, resp, delay) ==
    LET l1 == load(cs, file, t)
    IN  IF user_id \notin DOMAIN l1.tokens
        THEN not_authenticated(l1.cs, file, t)
        ELSE
        LET token_info == l1.tokens[user_id]
            expires_in == token_info.expires_at - t
            t2 == t + delay
        IN  IF still_valid(expires_in, buffer)
            THEN Outcome("", token_info, l1.cs, file, t, 0, 0)
            ELSE IF resp # None
            THEN LET refreshed == refresh_access_token(token_info.refresh_token, resp, t2)
                     \* MultiUserCacheHandler.save_token_to_cache, called by spotipy
                     s1 == save_user_token(l1.cs, file, t2, user_id, refreshed)
                     \* lines 107-109
                     s2 == save_user_token(s1.cs, s1.file, t2, user_id, refreshed)
                 IN  Outcome("", refreshed, s2.cs, s2.file, t2, 1, 2)
            ELSE IF usable_after_failed_refresh(expires_in)
            THEN Outcome("", token_info, l1.cs, file, t2, 1, 0)
            ELSE Outcome("TokenRefreshError", None, l1.cs, file, t2, 1, 0)

\* what load_all_tokens() returns to a caller at time t
load_all_tokens(cs, file, t) == load(cs, file, t).tokens

(***************************************************************************)
(* services/spotify_client.py                                              *)
(* Text is a sequence of characters, each character a one-character string *)
(* (a name the program never takes apart is written as one symbol).        *)
(***************************************************************************)
\* the character U+2014 (em dash)
EM_DASH == "U+2014"
Sentinel == <<EM_DASH>>
NotPlayingText == <<"N", "o", "t", " ", "p", "l", "a", "y", "i", "n", "g">>

\* sep.join(parts)
RECURSIVE join(_, _)
join(sep, parts) ==
    IF parts = <<>> THEN <<>>
    ELSE IF Len(parts) = 1 THEN parts[1]
    ELSE parts[1] \o sep \o join(sep, Tail(parts))

\* s.split(sep)[0]: the text before the first sep, all of s when it has none
RECURSIVE split_first(_, _)
split_first(s, sep) ==
    IF s = <<>> \/ Head(s) = sep THEN <<>>
    ELSE <<Head(s)>> \o split_first(Tail(s), sep)

\* TrackInfo.__init__; timestamp is datetime.now() to the second
TrackInfo(track, artists, album, year, link, timestamp) ==
    [track |-> track, artists |-> artists, album |-> album, year |-> year,
     link |-> link, timestamp |-> timestamp]

\* TrackInfo.not_playing()
not_playing_blank_album(t) == TrackInfo(NotPlayingText, Sentinel, <<>>, Sentinel, Sentinel, t)

not_playing(t) == TrackInfo(NotPlayingText, Sentinel, Sentinel, Sentinel, Sentinel, t)

\* the subscriptions of from_spotify_response: item["name"], a["name"] for
\* each of item["artists"], item["album"]["name"],
\* item["album"]["release_date"], item["external_urls"]["spotify"]; a key
\* that is missing raises KeyError
raises_key_error(item) ==
    ~ /\ "name" \in DOMAIN item
      /\ "artists" \in DOMAIN item
      /\ \A i \in 1..Len(item.artists) : "name" \in DOMAIN item.artists[i]
      /\ "album" \in DOMAIN item
      /\ "name" \in DOMAIN item.album
      /\ "release_date" \in DOMAIN item.album
      /\ "external_urls" \in DOMAIN item
      /\ "spotify" \in DOMAIN item.external_urls

\* TrackInfo.from_spotify_response(item)
from_spotify_response(item, t) ==
    TrackInfo(item.name,
              join(<<",", " ">>, [i \in 1..Len(item.artists) |-> item.artists[i].name]),
              item.album.name,
              split_first(item.album.release_date, "-"),
              item.external_urls.spotify,
              t)

\* TrackInfo.to_dict()
to_dict(track_info) ==
    [track |-> track_info.track, artists |-> track_info.artists,
     album |-> track_info.album, year |-> track_info.year,
     link |-> track_info.link, timestamp |-> track_info.timestamp]

\* what sp.current_user_playing_track() can answer
ApiError == [kind |-> "error"]
NoPlayback == [kind |-> "none"]
Playback(is_playing, item) == [kind |-> "playback", is_playing |-> is_playing, item |-> item]

\* `not item`: the item is None or a dict without keys
falsy(item) == DOMAIN item = {} \/ item = None

\* get_current_track(user_id) at time t, when ensure_valid_token raised
\* auth_raised ("" for a normal return) and the API answers current:
\* a TrackInfo, or None for every exception
get_current_track(auth_raised, current, t) ==
    IF auth_raised # "" THEN None
    ELSE IF current.kind = "error" THEN None
    ELSE IF current.kind = "none" THEN not_playing(t)
    ELSE IF ~current.is_playing THEN not_playing(t)
    ELSE IF falsy(current.item) THEN not_playing(t)
    ELSE IF raises_key_error(current.item) THEN None
    ELSE from_spotify_response(current.item, t)

(***************************************************************************)
(* services/sync_service.py: the pure parts                                *)
(***************************************************************************)
\* SyncMetrics()
SyncMetrics(total, success, failed, idle) ==
    [total |-> total, success |-> success, failed |-> failed, not_playing |-> idle]

\* _fetch_user_track(user_id): (user_id, TrackInfo or None)
fetch_user_track(user_id, auth_raised, current, t) ==
    <<user_id, get_current_track(auth_raised, current, t)>>

\* lines 88-104: how the loop classifies one completed future
classify(track_info) ==
    IF track_info = None THEN "failed"
    ELSE IF track_info.track = NotPlayingText THEN "not_playing"
    ELSE "success"

\* as_completed(futures, timeout=30) yields a future that is done within the
\* wait; future.result(timeout=5) on a future already done returns at once
completes_within_wait(seconds) == seconds <= AS_COMPLETED_TIMEOUT

count_ignores_failed(metrics, class) ==
    IF class = "failed" THEN metrics ELSE [metrics EXCEPT ![class] = @ + 1]

count(metrics, class) ==
    [metrics EXCEPT ![class] = @ + 1]

\* main.py manual_sync(): the HTTP answer to POST /sync when sync_all_users
\* raised `raised` ("" for a normal return) and, on a return, gave metrics
manual_sync(raised, metrics) ==
    IF raised = ""
    THEN [status_code |-> 200, status |-> "success",
          metrics |-> [total_users |-> metrics.total, success |-> metrics.success,
                       failed |-> metrics.failed, not_playing |-> metrics.not_playing]]
    ELSE [status_code |-> 500, detail |-> raised]

(***************************************************************************)
(* sheets/sheets_service.py: the pure parts                                *)
(***************************************************************************)
SHEET_HEADERS == <<"Pessoa", <<"Musica">>, <<"Artistas/Banda">>, <<"Album">>,
                   <<"Ano">>, <<"Link">>, 0>>

\* a row of the grid nobody has written
BlankRow == <<"", <<>>, <<>>, <<>>, <<>>, <<>>, 0>>

\* SheetCache.is_expired()
is_expired(updated, t) == (t - updated) > SHEET_CACHE_TTL

\* ws.col_values(1)
col_values(ws) == [i \in 1..Len(ws) |-> ws[i][1]]

MaxOf(S) == CHOOSE x \in S : \A y \in S : y <= x

\* _refresh_cache(): {user: idx + 1 for idx, user in enumerate(users) if idx > 0}
refresh_cache_with_header(ws) ==
    LET users == col_values(ws)
        hits(u) == {idx \in 0..(Len(users) - 1) : users[idx + 1] = u}
    IN  [u \in {users[i] : i \in 1..Len(users)} |-> MaxOf(hits(u)) + 1]

refresh_cache(ws) ==
    LET users == col_values(ws)
        hits(u) == {idx \in 0..(Len(users) - 1) : idx > 0 /\ users[idx + 1] = u}
    IN  [u \in {users[i] : i \in 2..Len(users)} |-> MaxOf(hits(u)) + 1]

\* lines 133-141
row_data(username, track_data) ==
    <<username, track_data.track, track_data.artists, track_data.album,
      track_data.year, track_data.link, track_data.timestamp>>

\* line 143: if username in user_index
is_known_never(index, username) == FALSE

is_known(index, username) == username \in DOMAIN index

\* lines 132-152: the range updates of the users the index knows
batch_updates_of(updates, index) ==
    LET known == SelectSeq(updates, LAMBDA x : is_known(index, x[1]))
    IN  [i \in 1..Len(known) |->
            [row |-> index[known[i][1]], values |-> row_data(known[i][1], known[i][2])]]

\* lines 132-152: the rows of the users the index does not know
new_rows_of(updates, index) ==
    LET fresh == SelectSeq(updates, LAMBDA x : ~is_known(index, x[1]))
    IN  [i \in 1..Len(fresh) |-> row_data(fresh[i][1], fresh[i][2])]

\* the grid after values are written to row r
SetRow(ws, r, values) ==
    [i \in 1..(IF r > Len(ws) THEN r ELSE Len(ws)) |->
        IF i = r THEN values ELSE IF i <= Len(ws) THEN ws[i] ELSE BlankRow]

\* ws.batch_update(batch_updates)
RECURSIVE ws_batch_update(_, _)
ws_batch_update(ws, batch) ==
    IF batch = <<>> THEN ws
    ELSE ws_batch_update(SetRow(ws, Head(batch).row, Head(batch).values), Tail(batch))

\* ws.append_rows(new_rows)
ws_append_rows(ws, rows) == ws \o rows

\* line 165: next_row = len(user_index) + 2
next_row_off_by_one(index) == Cardinality(DOMAIN index) + 1

next_row(index) == Cardinality(DOMAIN index) + 2

\* lines 165-167: user_index[row[0]] = next_row + i
record_new_no_offset(index, rows) ==
    LET names == {rows[k][1] : k \in 1..Len(rows)}
    IN  [u \in (DOMAIN index) \cup names |->
            IF u \in names THEN next_row(index) ELSE index[u]]

record_new(index, rows) ==
    LET names == {rows[k][1] : k \in 1..Len(rows)}
        at(u) == MaxOf({i \in 0..(Len(rows) - 1) : rows[i + 1][1] = u})
    IN  [u \in (DOMAIN index) \cup names |->
            IF u \in names THEN next_row(index) + at(u) ELSE index[u]]

(***************************************************************************)
(* utils/scheduler.py: the pure parts                                      *)
(* The scheduler itself is APScheduler's BackgroundScheduler; what the     *)
(* program configures (max_instances, the job id, shutdown(wait=True)) is  *)
(* modelled by what the library does with it.                              *)
(***************************************************************************)
\* job_defaults: 'max_instances': 1
MAX_INSTANCES == 1

\* add_job(..., id="spotify_sync_job", replace_existing=True)
SYNC_JOB_ID == "spotify_sync_job"

\* the value of a _metrics entry that holds None
NoValue == "None"

\* _metrics as the module creates it (last_run_time is left out)
InitialMetrics ==
    [total_runs |-> 0, successful_runs |-> 0, failed_runs |-> 0,
     last_run_status |-> NoValue, last_error |-> NoValue]

\* _on_job_event(event), with event.exception ("" for None)
on_job_event(m, exception) ==
    IF exception # ""
    THEN [m EXCEPT !.total_runs = @ + 1, !.failed_runs = @ + 1,
                   !.last_run_status = "failed", !.last_error = exception]
    ELSE [m EXCEPT !.total_runs = @ + 1, !.successful_runs = @ + 1,
                   !.last_run_status = "success"]

\* the scheduler calls every registered listener with the event
RECURSIVE dispatch_event(_, _, _)
dispatch_event(m, listeners, exception) ==
    IF listeners = 0 THEN m
    ELSE dispatch_event(on_job_event(m, exception), listeners - 1, exception)

\* _sync_job_wrapper(): what leaves the wrapper when sync_all_users raised
\* `raised` ("" for a normal return): except Exception logs and returns
sync_job_wrapper_propagates(raised) == raised

sync_job_wrapper(raised) == ""

\* max_instances: a trigger that fires while that many instances of the job
\* run is skipped
may_submit_always(instances) == TRUE

may_submit(instances) == instances < MAX_INSTANCES

\* start_scheduler(), line 78: if _scheduler.running
already_running_never(state) == FALSE

already_running(state) == state = "running"

\* stop_scheduler(), line 104: if not _scheduler.running
already_stopped(state) == state # "running"

\* _scheduler.shutdown(wait=True) returns once no instance of a job runs
drained_no_wait(instances) == TRUE

drained(instances) == instances = 0

\* what a caller can observe of the scheduler
Snapshot(d) ==
    [state |-> d.state, listeners |-> d.listeners, jobs |-> d.jobs,
     instances |-> d.instances, metrics |-> d.metrics]

NoCall == [op |-> "none", returned |-> TRUE]
NoTick == [running |-> FALSE, started |-> FALSE, instances_before |-> 0,
           accepted |-> FALSE, failures_before |-> 0]
NoRun == [raised |-> "", escaped |-> "", state_before |-> "stopped",
          state_after |-> "stopped", metrics_before |-> InitialMetrics,
          metrics_after |-> InitialMetrics, listeners |-> 0, ended |-> FALSE]

\* the module after import: scheduler created and not started
DriverInitial ==
    [state |-> "stopped", listeners |-> 0, jobs |-> {}, instances |-> 0,
     generation |-> 0, stopping |-> FALSE, metrics |-> InitialMetrics,
     fires |-> 0, failures |-> 0,
     last_call |-> NoCall, last_tick |-> NoTick, last_run |-> NoRun]

DriverAtRest == driver = DriverInitial

(***************************************************************************)
(* Credential side: state machine                                          *)
(***************************************************************************)
ProviderAnswers ==
    {[access_token |-> a, refresh_token |-> r, expires_in |-> e] :
        a \in AccessTokens, r \in RefreshTokens \cup {Absent}, e \in Lifetimes}

InitialFiles ==
    UNION {[S -> {TokenInfo("at0", "rt0", StartTime + k) : k \in ExpiryOffsets}] :
              S \in SUBSET InitialUsers}

NoOp == [op |-> "none"]

\* the scheduler's job thread and a request-handler thread
Threads == {"scheduler", "request"}

EmptyIndex == [u \in {} |-> 0]

\* a thread that runs no sync operation
AtRest ==
    [pc |-> "idle", kind |-> "all", user_ids |-> <<>>, pending |-> {},
     results |-> EmptyMap, updates |-> <<>>, metrics |-> SyncMetrics(0, 0, 0, 0),
     user_index |-> EmptyIndex, batch_updates |-> <<>>, new_rows |-> <<>>,
     calls |-> <<>>, sheet_before |-> <<>>]

SyncAtRest ==
    /\ sheet = <<SHEET_HEADERS>>
    /\ user_index = EmptyIndex
    /\ last_update = 0
    /\ remote = [u \in {} |-> None]
    /\ sync = [th \in Threads |-> AtRest]
    /\ overlap = FALSE
    /\ ledger = <<>>

\* a thread that is inside no credential call
CallerIdle ==
    [pc |-> "idle", calls |-> 0, stale |-> FALSE, batch |-> 0, disk_loads |-> 0,
     received |-> EmptyMap, held |-> EmptyMap, shares |-> {},
     tokens |-> EmptyMap, user_id |-> "", token_info |-> None, rounds |-> 0,
     changed |-> FALSE]

NoAudit ==
    [expected |-> EmptyMap, read_failed |-> FALSE, completed |-> 0, mutated |-> FALSE,
     disk_load_at |-> 0, put_since |-> FALSE, invalidated |-> FALSE]

CallersAtRest ==
    /\ callers = [th \in Threads |-> CallerIdle]
    /\ audit = NoAudit

\* the executor after import: no task submitted
PoolIdle ==
    [users |-> [c \in Threads |-> 0], submitted |-> [c \in Threads |-> 0],
     started |-> [c \in Threads |-> 0], finished |-> [c \in Threads |-> 0],
     queue |-> <<>>]

PoolAtRest == pool = PoolIdle

\* TOKENS_FILE, and another path a later construction may name (a path at
\* which no file exists)
TOKENS_FILE == "auth/tokens.json"
OtherFile == "other/tokens.json"
ShortInterval == 5
MaxConstructions == 2

CtorFiles == {TOKENS_FILE, OtherFile}
CtorIntervals == {RELOAD_INTERVAL, ShortInterval}

\* the arguments of TokenCacheManager(tokens_file, reload_interval)
Config(f, i) == [tokens_file |-> f, reload_interval |-> i]

\* an object made by super().__new__(cls)
Object(n) == [id |-> n]

\* a thread outside TokenCacheManager(...)
CtorIdle == [pc |-> "idle", args |-> None, returned |-> None, calls |-> 0,
             began_loaded |-> FALSE]

\* the class before the first construction
NotConstructed ==
    [instance |-> None, lock |-> "", objects |-> 0, init_count |-> 0,
     config |-> None, first |-> None, returned |-> {}, raced |-> FALSE,
     loaded |-> FALSE, records |-> EmptyMap,
     ctor |-> [th \in Threads |-> CtorIdle]]

\* the class once `_token_cache = TokenCacheManager(TOKENS_FILE)` has run at
\* the import of spotify_token_manager
Constructed ==
    [NotConstructed EXCEPT !.instance = Object(1), !.objects = 1, !.init_count = 1,
                           !.config = Config(TOKENS_FILE, RELOAD_INTERVAL),
                           !.first = Config(TOKENS_FILE, RELOAD_INTERVAL),
                           !.returned = {Object(1)}]

CtorAtRest == singleton = Constructed

CredAtRest ==
    /\ tokens_file = EmptyMap
    /\ cache = EmptyMap
    /\ last_load_time = 0
    /\ last = NoOp


AuthInit ==
    /\ now = StartTime
    /\ tokens_file \in InitialFiles
    /\ cache = EmptyMap
    /\ last_load_time = 0
    /\ last = NoOp
    /\ SyncAtRest
    /\ DriverAtRest
    /\ CallersAtRest
    /\ PoolAtRest
    /\ CtorAtRest

\* the clock advances by one of the steps; the steps are tens of seconds,
\* and no thread is inside batch_update, waits for TokenCacheManager's lock
\* or sits between a load and its save for that long
Tick ==
    \E d \in TickSteps :
        /\ now + d <= StartTime + MaxElapsed
        /\ \A th \in Threads : sync[th].pc \in {"idle", "collect"}
        /\ \A th \in Threads : callers[th].pc \in {"idle", "holding"}
        /\ now' = now + d
        /\ last' = NoOp
        /\ UNCHANGED <<tokens_file, cache, last_load_time>>
        /\ UNCHANGED <<syncVars, driverVars, callerVars, poolVars, ctorVars>>

\* a request path calls ensure_valid_token(user_id)
EnsureValid ==
    \E user_id \in UserIds, resp \in ProviderAnswers \cup {None}, delay \in Delays :
        LET cs == CacheState(cache, last_load_time)
            pre == load_all_tokens(cs, tokens_file, now)
            out == ensure_valid_token(cs, tokens_file, now, user_id,
                                      REFRESH_BUFFER_SEC, resp, delay)
        IN  /\ out.t <= StartTime + MaxElapsed
            /\ now' = out.t
            /\ tokens_file' = out.file
            /\ cache' = out.cs.cache
            /\ last_load_time' = out.cs.last_load_time
            /\ last' = [op |-> "ensure_valid", user_id |-> user_id,
                        known |-> user_id \in DOMAIN tokens_file,
                        prior |-> IF user_id \in DOMAIN pre THEN pre[user_id] ELSE None,
                        remaining |-> IF user_id \in DOMAIN pre
                                      THEN pre[user_id].expires_at - now ELSE 0,
                        answer |-> resp,
                        raised |-> out.raised, returned |-> out.returned,
                        provider_calls |-> out.provider_calls,
                        store_writes |-> out.store_writes,
                        file_before |-> tokens_file, view_before |-> pre]
            /\ UNCHANGED <<syncVars, driverVars, callerVars, poolVars, ctorVars>>

\* the login callback stores a new user's tokens: save_user_token(display_name, token_info)
Login ==
    \E user_id \in UserIds, resp \in ProviderAnswers :
        LET cs == CacheState(cache, last_load_time)
            token_info == TokenInfo(resp.access_token, "rt0", now + resp.expires_in)
            s == save_user_token(cs, tokens_file, now, user_id, token_info)
        IN  /\ user_id \notin DOMAIN tokens_file
            /\ tokens_file' = s.file
            /\ cache' = s.cs.cache
            /\ last_load_time' = s.cs.last_load_time
            /\ last' = [op |-> "login", user_id |-> user_id]
            /\ UNCHANGED now
            /\ UNCHANGED <<syncVars, driverVars, callerVars, poolVars, ctorVars>>

\* a reader (health check, user listing) calls load_all_tokens()
Load ==
    LET l == load(CacheState(cache, last_load_time), tokens_file, now)
    IN  /\ cache' = l.cs.cache
        /\ last_load_time' = l.cs.last_load_time
        /\ last' = [op |-> "load", disk_loads |-> l.disk_loads,
                    loaded_at_before |-> last_load_time,
                    file_before |-> tokens_file]
        /\ UNCHANGED <<now, tokens_file>>
        /\ UNCHANGED <<syncVars, driverVars, callerVars, poolVars, ctorVars>>

AuthNext == Tick \/ EnsureValid \/ Login \/ Load

\* the login callback's save_user_token when the write to disk fails: the
\* exception reaches the callback
LoginWriteFails ==
    \E user_id \in UserIds, truncated \in BOOLEAN :
        LET l == load(CacheState(cache, last_load_time), tokens_file, now)
            s == save_fails(l.cs, tokens_file, truncated)
        IN  /\ user_id \notin DOMAIN tokens_file
            /\ tokens_file' = s.file
            /\ cache' = s.cs.cache
            /\ last_load_time' = s.cs.last_load_time
            /\ last' = [op |-> "login_failed", user_id |-> user_id]
            /\ UNCHANGED now
            /\ UNCHANGED <<syncVars, driverVars, callerVars, poolVars, ctorVars>>

\* TokenCacheManager.invalidate_cache()
Invalidate ==
    LET cs == invalidate_cache(CacheState(cache, last_load_time))
    IN  /\ cache' = cs.cache
        /\ last_load_time' = cs.last_load_time
        /\ last' = [op |-> "invalidate"]
        /\ UNCHANGED <<now, tokens_file>>
        /\ UNCHANGED <<syncVars, driverVars, callerVars, poolVars, ctorVars>>

\* the TokenCacheManager alone: get, put, a put whose write fails, invalidate
StoreNext == Tick \/ Login \/ Load \/ LoginWriteFails \/ Invalidate

SpecStore == AuthInit /\ [][StoreNext]_vars

SpecAuth == AuthInit /\ [][AuthNext]_vars

(***************************************************************************)
(* Credential side: callers on several threads                             *)
(* load() and save() hold TokenCacheManager._cache_lock for their whole    *)
(* body, so each is one step; a caller is between steps wherever its code  *)
(* is outside the lock.                                                    *)
(***************************************************************************)
\* credential calls one thread makes in one behaviour
MaxCalls == 2

\* load() goes to the tokens file
reads_disk(cs, t) == ~((DOMAIN cs.cache # {}) /\ ~should_reload(cs, t))

\* load() when the read of the tokens file raises IOError or JSONDecodeError
\* (lines 61-63): the cache becomes {} and {} is returned
load_read_fails(cs, file, t) ==
    IF reads_disk(cs, t)
    THEN [cs |-> CacheState(EmptyMap, t), tokens |-> EmptyMap, disk_loads |-> 1]
    ELSE load(cs, file, t)

\* the provider's answer to the refreshes and logins of concurrent callers
PutAnswers == {resp \in ProviderAnswers : resp.refresh_token = Absent}

MayCall(th) == callers[th].pc = "idle" /\ callers[th].calls < MaxCalls

\* refreshes and login saves made in one behaviour, over all threads
MaxPuts == 2

RECURSIVE SumCalls(_)
SumCalls(S) ==
    IF S = {} THEN 0
    ELSE LET th == CHOOSE x \in S : TRUE
         IN  callers[th].calls + SumCalls(S \ {th})

MayPut(th) == MayCall(th) /\ SumCalls(Threads) < MaxPuts

\* ensure_valid_token(user_id) up to the provider's answer (lines 84-105):
\* the record is inside the buffer and the provider answers resp; spotipy's
\* cache handler and lines 107-109 will each load, set and save
BeginRefresh(th) ==
    /\ MayPut(th)
    /\ \E user_id \in UserIds, resp \in PutAnswers :
        LET l == load(CacheState(cache, last_load_time), tokens_file, now)
        IN  /\ user_id \in DOMAIN l.tokens
            /\ ~still_valid(l.tokens[user_id].expires_at - now, REFRESH_BUFFER_SEC)
            /\ cache' = l.cs.cache
            /\ last_load_time' = l.cs.last_load_time
            /\ callers' = [callers EXCEPT ![th] =
                   [@ EXCEPT !.pc = "put_load", !.calls = @ + 1, !.user_id = user_id,
                             !.token_info = refresh_access_token(
                                 l.tokens[user_id].refresh_token, resp, now),
                             !.rounds = 2]]
    /\ last' = NoOp
    /\ UNCHANGED <<now, tokens_file, audit>>
    /\ UNCHANGED <<syncVars, driverVars, poolVars, ctorVars>>

\* the login callback is about to call save_user_token(display_name, token_info)
BeginLogin(th) ==
    /\ MayPut(th)
    /\ \E user_id \in UserIds, resp \in PutAnswers :
        callers' = [callers EXCEPT ![th] =
            [@ EXCEPT !.pc = "put_load", !.calls = @ + 1, !.user_id = user_id,
                      !.token_info = TokenInfo(resp.access_token, "rt0",
                                               now + resp.expires_in),
                      !.rounds = 1]]
    /\ last' = NoOp
    /\ UNCHANGED <<now, tokens_file, cache, last_load_time, audit>>
    /\ UNCHANGED <<syncVars, driverVars, poolVars, ctorVars>>

\* tokens = load_all_tokens(), the first line of a load-set-save; the read
\* of the file may fail
PutLoad(th) ==
    /\ callers[th].pc = "put_load"
    /\ \E read_ok \in BOOLEAN :
        LET cs == CacheState(cache, last_load_time)
            l == IF read_ok THEN load(cs, tokens_file, now)
                 ELSE load_read_fails(cs, tokens_file, now)
        IN  /\ read_ok \/ reads_disk(cs, now)
            /\ cache' = l.cs.cache
            /\ last_load_time' = l.cs.last_load_time
            /\ callers' = [callers EXCEPT ![th].pc = "put_save", ![th].tokens = l.tokens]
            /\ audit' = [audit EXCEPT !.read_failed = @ \/ ~read_ok]
    /\ last' = NoOp
    /\ UNCHANGED <<now, tokens_file>>
    /\ UNCHANGED <<syncVars, driverVars, poolVars, ctorVars>>

\* tokens[user_id] = token_info; save_all_tokens(tokens)
PutSave(th) ==
    /\ callers[th].pc = "put_save"
    /\ LET c == callers[th]
           s == save(DictSet(c.tokens, c.user_id, c.token_info), now)
       IN  /\ tokens_file' = s.file
           /\ cache' = s.cs.cache
           /\ last_load_time' = s.cs.last_load_time
           /\ last' = [op |-> "put", user_id |-> c.user_id, file_before |-> tokens_file]
           /\ audit' = [audit EXCEPT !.expected = DictSet(@, c.user_id, c.token_info)]
           /\ callers' = [callers EXCEPT ![th] =
                  IF c.rounds > 1
                  THEN [c EXCEPT !.pc = "put_load", !.rounds = @ - 1, !.tokens = EmptyMap]
                  ELSE [CallerIdle EXCEPT !.calls = c.calls]]
    /\ UNCHANGED now
    /\ UNCHANGED <<syncVars, driverVars, poolVars, ctorVars>>

\* refreshes and login saves on two threads, with readers and invalidate
PutsNext ==
    \/ Tick
    \/ Load
    \/ Invalidate
    \/ \E th \in Threads : BeginRefresh(th)
    \/ \E th \in Threads : BeginLogin(th)
    \/ \E th \in Threads : PutLoad(th)
    \/ \E th \in Threads : PutSave(th)

SpecPuts == AuthInit /\ [][PutsNext]_vars

\* a reader calls load_all_tokens() and waits for the lock
CallGet(th) ==
    /\ MayCall(th)
    /\ callers' = [callers EXCEPT ![th] =
           [@ EXCEPT !.pc = "get_wait", !.calls = @ + 1,
                     !.stale = reads_disk(CacheState(cache, last_load_time), now),
                     !.batch = audit.completed]]
    /\ last' = NoOp
    /\ UNCHANGED <<now, tokens_file, cache, last_load_time, audit>>
    /\ UNCHANGED <<syncVars, driverVars, poolVars, ctorVars>>

\* the reader holds the lock for the body of load() and gets
\* self._cache.copy(): a new dict whose values are the dicts _cache holds.
\* A json.load gives _cache new dicts, which no earlier copy shares.
RunGet(th) ==
    /\ callers[th].pc = "get_wait"
    /\ LET l == load(CacheState(cache, last_load_time), tokens_file, now)
       IN  /\ cache' = l.cs.cache
           /\ last_load_time' = l.cs.last_load_time
           /\ callers' = [t \in Threads |->
                  IF t = th
                  THEN [callers[t] EXCEPT !.pc = "holding", !.disk_loads = l.disk_loads,
                                          !.received = l.tokens, !.held = l.tokens,
                                          !.shares = DOMAIN l.tokens]
                  ELSE IF l.disk_loads > 0 THEN [callers[t] EXCEPT !.shares = {}]
                  ELSE callers[t]]
           /\ audit' = [audit EXCEPT !.completed = @ + 1]
    /\ last' = NoOp
    /\ UNCHANGED <<now, tokens_file>>
    /\ UNCHANGED <<syncVars, driverVars, poolVars, ctorVars>>

\* what a caller may write into a record it holds
Forged == "forged"

\* the caller changes the map it was given, once: del tokens[u], or
\* tokens[u] = a dict of its own
MutateMap(th) ==
    /\ callers[th].pc = "holding"
    /\ ~callers[th].changed
    /\ \E u \in UserIds :
        callers' = [callers EXCEPT ![th] =
            [@ EXCEPT !.changed = TRUE,
                      !.held = IF u \in DOMAIN @ THEN Without(@, u)
                               ELSE DictSet(@, u, TokenInfo(Forged, Forged, 0)),
                      !.shares = @ \ {u}]]
    /\ audit' = [audit EXCEPT !.mutated = TRUE]
    /\ last' = NoOp
    /\ UNCHANGED <<now, tokens_file, cache, last_load_time>>
    /\ UNCHANGED <<syncVars, driverVars, poolVars, ctorVars>>

\* the caller changes a record inside the map it was given, once:
\* tokens[u]["access_token"] = ...; every map that shares the dict sees it
MutateRecord(th) ==
    /\ callers[th].pc = "holding"
    /\ \E u \in DOMAIN callers[th].held :
        LET changed == [callers[th].held[u] EXCEPT !.access_token = Forged]
            shared == u \in callers[th].shares
        IN  /\ ~callers[th].changed
            /\ callers[th].held[u].access_token # Forged
            /\ callers' = [t \in Threads |->
                   IF t = th \/ (shared /\ u \in callers[t].shares)
                   THEN [callers[t] EXCEPT !.held = DictSet(@, u, changed),
                                           !.changed = @ \/ t = th]
                   ELSE callers[t]]
            /\ cache' = IF shared THEN DictSet(cache, u, changed) ELSE cache
    /\ audit' = [audit EXCEPT !.mutated = TRUE]
    /\ last' = NoOp
    /\ UNCHANGED <<now, tokens_file, last_load_time>>
    /\ UNCHANGED <<syncVars, driverVars, poolVars, ctorVars>>

\* the caller is done with the map
Drop(th) ==
    /\ callers[th].pc = "holding"
    /\ callers' = [callers EXCEPT ![th] = [CallerIdle EXCEPT !.calls = callers[th].calls]]
    /\ last' = NoOp
    /\ UNCHANGED <<now, tokens_file, cache, last_load_time, audit>>
    /\ UNCHANGED <<syncVars, driverVars, poolVars, ctorVars>>

\* readers on two threads, and what they do with the maps they get
ReadersNext ==
    \/ Tick
    \/ \E th \in Threads : CallGet(th)
    \/ \E th \in Threads : RunGet(th)
    \/ \E th \in Threads : MutateMap(th)
    \/ \E th \in Threads : MutateRecord(th)
    \/ \E th \in Threads : Drop(th)

SpecReaders == AuthInit /\ [][ReadersNext]_vars

\* the history after a load(): a disk load is the latest one from now on
AfterLoad(l) ==
    IF l.disk_loads > 0
    THEN [audit EXCEPT !.disk_load_at = now, !.put_since = FALSE, !.invalidated = FALSE]
    ELSE audit

\* a reader calls load_all_tokens(); the history keeps when the tokens file
\* was last read, and whether a save or an invalidate came after that
TtlGet ==
    LET l == load(CacheState(cache, last_load_time), tokens_file, now)
    IN  /\ cache' = l.cs.cache
        /\ last_load_time' = l.cs.last_load_time
        /\ last' = [op |-> "get", disk_loads |-> l.disk_loads,
                    since_disk_load |-> now - audit.disk_load_at,
                    put_since |-> audit.put_since,
                    invalidated |-> audit.invalidated,
                    returned |-> l.tokens]
        /\ audit' = AfterLoad(l)
        /\ UNCHANGED <<now, tokens_file, callers>>
        /\ UNCHANGED <<syncVars, driverVars, poolVars, ctorVars>>

\* save_user_token(user_id, token_info): load, set, save
TtlPut ==
    \E user_id \in UserIds, resp \in PutAnswers :
        LET cs == CacheState(cache, last_load_time)
            l == load(cs, tokens_file, now)
            token_info == TokenInfo(resp.access_token, "rt0", now + resp.expires_in)
            s == save_user_token(cs, tokens_file, now, user_id, token_info)
        IN  /\ tokens_file' = s.file
            /\ cache' = s.cs.cache
            /\ last_load_time' = s.cs.last_load_time
            /\ last' = [op |-> "put", user_id |-> user_id, file_before |-> tokens_file]
            /\ audit' = [AfterLoad(l) EXCEPT !.put_since = TRUE]
            /\ UNCHANGED <<now, callers>>
            /\ UNCHANGED <<syncVars, driverVars, poolVars, ctorVars>>

\* TokenCacheManager.invalidate_cache()
TtlInvalidate ==
    LET cs == invalidate_cache(CacheState(cache, last_load_time))
    IN  /\ cache' = cs.cache
        /\ last_load_time' = cs.last_load_time
        /\ last' = [op |-> "invalidate"]
        /\ audit' = [audit EXCEPT !.invalidated = TRUE]
        /\ UNCHANGED <<now, tokens_file, callers>>
        /\ UNCHANGED <<syncVars, driverVars, poolVars, ctorVars>>

\* get, put and invalidate one after another, as the clock advances
TtlNext == Tick \/ TtlGet \/ TtlPut \/ TtlInvalidate

SpecTtl == AuthInit /\ [][TtlNext]_vars

(***************************************************************************)
(* TokenCacheManager.__new__: the constructions, statement by statement    *)
(***************************************************************************)

\* `if cls._instance is None`
needs_instance_always(inst) == TRUE

needs_instance(inst) == inst = None

\* the state before any TokenCacheManager(...) has run
CtorInit ==
    /\ now = StartTime
    /\ tokens_file \in InitialFiles
    /\ cache = EmptyMap
    /\ last_load_time = 0
    /\ last = NoOp
    /\ SyncAtRest
    /\ DriverAtRest
    /\ CallersAtRest
    /\ PoolAtRest
    /\ singleton = NotConstructed

CtorUnchanged == UNCHANGED <<now, syncVars, driverVars, callerVars, poolVars>>

\* a thread calls TokenCacheManager(tokens_file, reload_interval) and makes
\* the first check, outside the lock
Construct(th) ==
    /\ singleton.ctor[th].pc = "idle"
    /\ singleton.ctor[th].calls < MaxConstructions
    /\ \E f \in CtorFiles, i \in CtorIntervals :
          singleton' = [singleton EXCEPT
              !.ctor[th] = [@ EXCEPT
                  !.pc = IF needs_instance(singleton.instance) THEN "acquire" ELSE "return",
                  !.args = Config(f, i),
                  !.returned = None,
                  !.began_loaded = singleton.loaded]]
    /\ CtorUnchanged
    /\ UNCHANGED credVars

\* `with cls._lock`: the thread waits until the lock is free
Acquire(th) ==
    /\ singleton.ctor[th].pc = "acquire"
    /\ singleton.lock = ""
    /\ singleton' = [singleton EXCEPT !.lock = th, !.ctor[th].pc = "second_check"]
    /\ CtorUnchanged
    /\ UNCHANGED credVars

\* the second check, and `cls._instance = super().__new__(cls)`
SecondCheck(th) ==
    /\ singleton.ctor[th].pc = "second_check"
    /\ singleton' =
          IF needs_instance(singleton.instance)
          THEN [singleton EXCEPT !.objects = @ + 1,
                                 !.instance = Object(singleton.objects + 1),
                                 !.ctor[th].pc = "initialize"]
          ELSE [singleton EXCEPT !.raced = TRUE, !.ctor[th].pc = "release"]
    /\ CtorUnchanged
    /\ UNCHANGED credVars

\* `cls._instance._initialize(tokens_file, reload_interval)`
Initialize(th) ==
    /\ singleton.ctor[th].pc = "initialize"
    /\ singleton' = [singleton EXCEPT
          !.config = singleton.ctor[th].args,
          !.first = IF singleton.init_count = 0 THEN singleton.ctor[th].args ELSE @,
          !.init_count = @ + 1,
          !.ctor[th].pc = "release"]
    /\ cache' = EmptyMap
    /\ last_load_time' = 0
    /\ CtorUnchanged
    /\ UNCHANGED <<tokens_file, last>>

\* the end of the `with` block
Release(th) ==
    /\ singleton.ctor[th].pc = "release"
    /\ singleton' = [singleton EXCEPT !.lock = "", !.ctor[th].pc = "return"]
    /\ CtorUnchanged
    /\ UNCHANGED credVars

\* `return cls._instance`
CtorReturn(th) ==
    /\ singleton.ctor[th].pc = "return"
    /\ singleton' = [singleton EXCEPT
          !.returned = @ \cup {singleton.instance},
          !.ctor[th] = [@ EXCEPT !.pc = "idle", !.calls = @ + 1,
                                      !.returned = singleton.instance]]
    /\ CtorUnchanged
    /\ UNCHANGED credVars

\* the contents of the file at a path: only TOKENS_FILE exists
FileAt(path) == IF path = TOKENS_FILE THEN tokens_file ELSE EmptyMap

\* load() on the instance a construction returned, with the instance's own
\* tokens_file and reload_interval; on an instance whose _initialize has not
\* run yet the attributes are missing and load() raises AttributeError
CtorGet(th) ==
    /\ singleton.ctor[th].pc = "idle"
    /\ singleton.ctor[th].returned # None
    /\ IF singleton.init_count = 0
       THEN /\ last' = [op |-> "get", raised |-> TRUE]
            /\ UNCHANGED <<tokens_file, cache, last_load_time, singleton>>
       ELSE LET fresh == (DOMAIN cache # {})
                            /\ ~((now - last_load_time) > singleton.config.reload_interval)
                tokens == IF fresh THEN cache ELSE FileAt(singleton.config.tokens_file)
            IN  /\ cache' = tokens
                /\ last_load_time' = IF fresh THEN last_load_time ELSE now
                /\ last' = [op |-> "get", raised |-> FALSE]
                /\ singleton' = [singleton EXCEPT !.loaded = (DOMAIN tokens # {}),
                                                  !.records = tokens]
                /\ UNCHANGED tokens_file
    /\ CtorUnchanged

CtorNext ==
    \E th \in Threads :
        \/ Construct(th)
        \/ Acquire(th)
        \/ SecondCheck(th)
        \/ Initialize(th)
        \/ Release(th)
        \/ CtorReturn(th)
        \/ CtorGet(th)

SpecCtor == CtorInit /\ [][CtorNext]_vars

(***************************************************************************)
(* Credential side: properties                                             *)
(***************************************************************************)
\* the last operation was ensure_valid_token for a user whose record the
\* lookup found
EnsuredKnown == last.op = "ensure_valid" /\ last.prior # None

\* the Store is as it was before the last operation
StoreUntouched == tokens_file = last.file_before /\ last.store_writes = 0

\* the Credential Cache is as it was: a get returns what it returned before,
\* and every record held in memory is the Store's record
CacheUntouched ==
    /\ load_all_tokens(CacheState(cache, last_load_time), tokens_file, now)
           = last.view_before
    /\ \A u \in DOMAIN cache :
           u \in DOMAIN last.file_before /\ cache[u] = last.file_before[u]

\* C6: with remaining >= refresh_buffer_sec (remaining = buffer included),
\* ensure_valid_token returns the stored record unchanged, makes no provider
\* call and writes nothing to the Store.
C6_NoRefreshOutsideBuffer ==
    (EnsuredKnown /\ last.remaining >= REFRESH_BUFFER_SEC) =>
        /\ last.raised = ""
        /\ last.returned = last.prior
        /\ last.provider_calls = 0
        /\ StoreUntouched

C6_Witness ==
    /\ EnsuredKnown
    /\ last.remaining = REFRESH_BUFFER_SEC
    /\ last.returned = last.prior
    /\ last.answer # None

\* C7: with an expired token (remaining <= 0, remaining = 0 included) and a
\* failing provider refresh, ensure_valid_token raises TokenRefreshError,
\* returns no record and leaves Store and cache as they were.
C7_ExpiredAndRefreshFails ==
    (EnsuredKnown /\ last.remaining <= 0 /\ last.answer = None) =>
        /\ last.raised = "TokenRefreshError"
        /\ last.returned = None
        /\ StoreUntouched
        /\ CacheUntouched

C7_Witness ==
    /\ EnsuredKnown
    /\ last.remaining = 0
    /\ last.answer = None
    /\ last.raised = "TokenRefreshError"
    /\ DOMAIN tokens_file = InitialUsers

\* C8: inside the buffer but not yet expired (0 < remaining < buffer) and a
\* failing provider refresh: ensure_valid_token returns the prior record
\* unchanged, and Store and cache are unchanged for every user.
C8_StaleButValidOnFailure ==
    (EnsuredKnown /\ 0 < last.remaining /\ last.remaining < REFRESH_BUFFER_SEC
        /\ last.answer = None) =>
        /\ last.raised = ""
        /\ last.returned = last.prior
        /\ StoreUntouched
        /\ CacheUntouched

C8_Witness ==
    /\ EnsuredKnown
    /\ last.remaining = 1
    /\ last.answer = None
    /\ last.returned = last.prior
    /\ DOMAIN tokens_file = InitialUsers

\* C9: for a user_id with no record in the Store, ensure_valid_token raises
\* ValueError (NotAuthenticated) with no provider call made and Store and
\* cache unchanged.
C9_NotAuthenticated ==
    (last.op = "ensure_valid" /\ ~last.known) =>
        /\ last.raised = "ValueError"
        /\ last.returned = None
        /\ last.provider_calls = 0
        /\ StoreUntouched
        /\ CacheUntouched

C9_Witness ==
    /\ last.op = "ensure_valid"
    /\ ~last.known
    /\ last.answer # None
    /\ last.raised = "ValueError"
    /\ DOMAIN tokens_file # {}

\* C10: after a successful provider refresh the returned record carries the
\* new access_token and expires_at, keeps the old refresh_token when the
\* answer has none, is the record in the Store and the one the next get
\* returns, and every other user's record is as before.
C10_RefreshMergedAndPersisted ==
    (EnsuredKnown /\ last.remaining < REFRESH_BUFFER_SEC /\ last.answer # None) =>
        LET u == last.user_id
            new == last.returned
        IN  /\ last.raised = ""
            /\ new.access_token = last.answer.access_token
            /\ new.expires_at = now + last.answer.expires_in
            /\ new.refresh_token =
                   IF last.answer.refresh_token = Absent
                   THEN last.prior.refresh_token
                   ELSE last.answer.refresh_token
            /\ u \in DOMAIN tokens_file /\ tokens_file[u] = new
            /\ load_all_tokens(CacheState(cache, last_load_time), tokens_file, now)
                   = tokens_file
            /\ DOMAIN tokens_file = DOMAIN last.file_before
            /\ \A v \in DOMAIN tokens_file \ {u} : tokens_file[v] = last.file_before[v]

C10_Witness ==
    /\ EnsuredKnown
    /\ last.remaining < REFRESH_BUFFER_SEC
    /\ last.answer # None
    /\ last.answer.refresh_token = Absent
    /\ last.returned.refresh_token = "rt0"
    /\ last.returned.access_token # last.prior.access_token
    /\ Cardinality(DOMAIN tokens_file) >= 2

\* C17: with no put in between, a get within reload_interval seconds of the
\* last disk load performs no disk load, and the first get (or the first one
\* after the interval has elapsed) performs exactly one, whatever the Store
\* holds, a Store with no records included.
C17_OneLoadPerInterval ==
    last.op = "load" =>
        last.disk_loads =
            IF (now - last.loaded_at_before) > RELOAD_INTERVAL THEN 1 ELSE 0

\* C18: every record held in memory is a record of the Store with the same
\* contents, after any sequence of get, put and invalidate, a put whose
\* write fails included.
C18_MemoryWithinStore ==
    \A u \in DOMAIN cache : u \in DOMAIN tokens_file /\ cache[u] = tokens_file[u]

\* C25: a put never removes a record: every user with a record in the Store
\* before a save still has one after it, whatever the interleaving of gets,
\* refreshes, login saves and invalidate, and also when a read of the Store
\* fails.
C25_NoRecordRemoved ==
    last.op = "put" => DOMAIN last.file_before \subseteq DOMAIN tokens_file

\* C28: refreshes and login saves on two threads behave as if each
\* load-set-save were one critical section: while no read of the Store has
\* failed, the Store holds, for every user, the record of that user's
\* latest completed save.
C28_PutsAreAtomic ==
    ~audit.read_failed =>
        \A u \in DOMAIN audit.expected :
            u \in DOMAIN tokens_file /\ tokens_file[u] = audit.expected[u]

\* C29: once callers have changed maps a get returned to them, or records
\* inside those maps, without a put, a get still returns what the Store
\* holds.
C29_CopyOnRead ==
    audit.mutated =>
        load_all_tokens(CacheState(cache, last_load_time), tokens_file, now) = tokens_file

\* readers a and b called get while the cache was stale, before either
\* returned, and both hold what they got
StaleTogether(a, b) ==
    /\ a # b
    /\ callers[a].pc = "holding" /\ callers[b].pc = "holding"
    /\ callers[a].stale /\ callers[b].stale
    /\ callers[a].batch = callers[b].batch

\* C30: when two readers call get together while the cache is stale, one
\* disk load is performed between them and each receives the contents of
\* the Store.
C30_OneLoadForStaleReaders ==
    \A a, b \in Threads :
        StaleTogether(a, b) =>
            /\ callers[a].disk_loads + callers[b].disk_loads = 1
            /\ callers[a].received = tokens_file
            /\ callers[b].received = tokens_file

\* C31: a get issued when more than the reload interval has passed since
\* the tokens file was last read reloads from it, whether or not saves
\* happened in between; and the first get after invalidate_cache() reloads.
C31_ReloadAfterTtl ==
    (/\ last.op = "get"
     /\ last.since_disk_load > RELOAD_INTERVAL \/ last.invalidated)
        => last.disk_loads = 1

\* C32: however many constructions run, one after another or at the same
\* time, at most one TokenCacheManager object is ever made and every
\* construction returns it; _initialize runs once; and a construction with
\* another file or interval leaves the instance's configuration and its
\* cached records as they were.
C32_OneInstance ==
    /\ singleton.objects <= 1
    /\ singleton.returned \subseteq {Object(1)}
    /\ \A th \in Threads :
          singleton.ctor[th].pc = "idle" /\ singleton.ctor[th].returned # None
              => singleton.ctor[th].returned = singleton.instance
    /\ singleton.init_count <= 1
    /\ (\A th \in Threads : singleton.ctor[th].pc = "idle") /\ singleton.returned # {}
          => singleton.init_count = 1
    /\ singleton.init_count >= 1 => singleton.config = singleton.first
    /\ singleton.loaded => cache = singleton.records

\* two threads raced for the lock, the cache was loaded, and afterwards a
\* construction naming another configuration returned
C32_Witness ==
    /\ singleton.raced
    /\ singleton.loaded
    /\ \A th \in Threads : singleton.ctor[th].pc = "idle" /\ singleton.ctor[th].calls >= 1
    /\ \E th \in Threads :
          /\ singleton.ctor[th].began_loaded
          /\ singleton.ctor[th].args # singleton.first
          /\ singleton.ctor[th].returned = Object(1)

(***************************************************************************)
(* Sync side: state machine                                                *)
(***************************************************************************)
\* get_authenticated_users(), in the order of the tokens file
Authenticated == <<"ana", "bob">>

SongX ==
    [name |-> <<"Song X">>,
     artists |-> <<[name |-> <<"Artist Y">>], [name |-> <<"Artist W">>]>>,
     album |-> [name |-> <<"Album Z">>,
                release_date |-> <<"2", "0", "2", "0", "-", "0", "5", "-", "0", "1">>],
     external_urls |-> [spotify |-> <<"https://open.spotify.com/track/x">>]]

Remote(auth, current, seconds) == [auth |-> auth, current |-> current, seconds |-> seconds]

\* what one user's fetch can meet
RemoteCases ==
    {Remote("", Playback(TRUE, SongX), FastSeconds),
     Remote("", Playback(TRUE, SongX), SlowSeconds),
     Remote("", Playback(TRUE, SongX), HungSeconds),
     Remote("", NoPlayback, FastSeconds),
     Remote("", Playback(FALSE, SongX), FastSeconds),
     Remote("", Playback(TRUE, None), FastSeconds),
     Remote("", ApiError, FastSeconds),
     Remote("ValueError", NoPlayback, FastSeconds),
     Remote("TokenRefreshError", NoPlayback, FastSeconds)}

\* the first user meets any of the cases, the second one of the usable ones
\* or the fetch that never ends
InitialRemotes ==
    {[u \in {Authenticated[1], Authenticated[2]} |->
         IF u = Authenticated[1] THEN a ELSE b] :
        a \in RemoteCases,
        b \in {Remote("", Playback(TRUE, SongX), FastSeconds),
               Remote("", NoPlayback, FastSeconds),
               Remote("", Playback(TRUE, SongX), HungSeconds)}}

\* a row written by an earlier run of the program
OldRow(u) == row_data(u, to_dict(not_playing(StartTime - 1)))

InitialSheets == {<<SHEET_HEADERS>>, <<SHEET_HEADERS, OldRow("ana")>>}

SyncStart ==
    /\ now = StartTime + TickLong
    /\ CredAtRest
    /\ sheet \in InitialSheets
    /\ user_index = EmptyIndex
    /\ last_update = 0
    /\ remote \in InitialRemotes
    /\ sync = [th \in Threads |-> AtRest]
    /\ ledger = <<>>
    /\ DriverAtRest
    /\ CallersAtRest
    /\ PoolAtRest
    /\ CtorAtRest

\* items of a playback response that lack expected fields: the track with
\* any set of its keys left out, and with one key of a nested object left out
PartialItems ==
    {[f \in keys |-> SongX[f]] : keys \in SUBSET (DOMAIN SongX)}
        \cup {[SongX EXCEPT !.album = Without(@, "name")],
              [SongX EXCEPT !.album = Without(@, "release_date")],
              [SongX EXCEPT !.external_urls = Without(@, "spotify")],
              [SongX EXCEPT !.artists = <<Without(@[1], "name"), @[2]>>]}

\* the answers of current_user_playing_track() that carry no track data, and
\* the complete one
FetchCases ==
    {Remote("", Playback(TRUE, item), FastSeconds) : item \in PartialItems}
        \cup {Remote("", NoPlayback, FastSeconds),
              Remote("", Playback(FALSE, SongX), FastSeconds),
              Remote("", Playback(TRUE, None), FastSeconds)}

\* sync operations one after another; the first user's fetch meets one of
\* FetchCases, the second user is playing
FetchInit ==
    /\ now = StartTime + TickLong
    /\ CredAtRest
    /\ sheet = <<SHEET_HEADERS>>
    /\ user_index = EmptyIndex
    /\ last_update = 0
    /\ remote \in {[u \in {Authenticated[1], Authenticated[2]} |->
                       IF u = Authenticated[1] THEN a
                       ELSE Remote("", Playback(TRUE, SongX), FastSeconds)] :
                    a \in FetchCases}
    /\ sync = [th \in Threads |-> AtRest]
    /\ ledger = <<>>
    /\ overlap = FALSE
    /\ DriverAtRest
    /\ CallersAtRest
    /\ PoolAtRest
    /\ CtorAtRest

\* sync operations one after another
SyncInit == SyncStart /\ overlap = FALSE

\* the scheduler thread and a request thread run at the same time
RaceInit == SyncStart /\ overlap = TRUE

Running(th) == sync[th].pc # "idle"

Started == Len(ledger) + Cardinality({th \in Threads : Running(th)})

\* no other thread is inside a sync operation
Alone(th) == \A other \in Threads \ {th} : ~Running(other)

\* a sync operation may start on thread th
MayStart(th) ==
    /\ ~Running(th)
    /\ Started < MaxSyncs
    /\ overlap \/ Alone(th)

\* the operation of thread th ends: what it raised to its caller ("" for a
\* normal return) goes to the ledger with what it did
Finish(th, c, raised, ws) ==
    /\ sync' = [sync EXCEPT ![th] = AtRest]
    /\ ledger' = Append(ledger,
                        [kind |-> c.kind, raised |-> raised,
                         user_ids |-> c.user_ids, results |-> c.results,
                         metrics |-> c.metrics, calls |-> c.calls,
                         new_rows |-> c.new_rows, batch_updates |-> c.batch_updates,
                         sheet_before |-> c.sheet_before, sheet_after |-> ws])

\* where batch_update goes once it holds its user_index
AfterIndex(c) ==
    LET batch == batch_updates_of(c.updates, c.user_index)
        rows == new_rows_of(c.updates, c.user_index)
    IN  [c EXCEPT !.batch_updates = batch, !.new_rows = rows,
                  !.pc = IF batch # <<>> THEN "range_update"
                         ELSE IF rows # <<>> THEN "append_rows" ELSE "return"]

\* get_authenticated_users(): the users with a record, in the order of the
\* tokens file; r holds what each of them meets
get_authenticated_users(r) == SelectSeq(Authenticated, LAMBDA u : u \in DOMAIN r)

\* sync_all_users(), lines 64-82: enumerate the users and submit one task
\* each; with no user the metrics are returned at once (lines 70-72)
StartCycle(th) ==
    /\ MayStart(th)
    /\ LET user_ids == get_authenticated_users(remote)
           c == [AtRest EXCEPT !.kind = "all", !.user_ids = user_ids,
                               !.metrics = SyncMetrics(Len(user_ids), 0, 0, 0),
                               !.pending = {user_ids[i] : i \in 1..Len(user_ids)},
                               !.sheet_before = sheet,
                               !.pc = "collect"]
       IN  IF user_ids = <<>>
           THEN Finish(th, c, "", sheet)
           ELSE sync' = [sync EXCEPT ![th] = c] /\ UNCHANGED ledger
    /\ UNCHANGED <<now, credVars, driverVars, callerVars, poolVars, ctorVars, sheet, user_index, last_update, remote, overlap>>

\* lines 84-108: one future completes and the loop classifies it
Collect(th) ==
    /\ sync[th].pc = "collect"
    /\ \E u \in sync[th].pending :
        /\ completes_within_wait(remote[u].seconds)
        /\ LET c == sync[th]
               res == fetch_user_track(u, remote[u].auth, remote[u].current, now)
               class == classify(res[2])
           IN  sync' = [sync EXCEPT ![th] =
                   [c EXCEPT !.pending = @ \ {u},
                             !.results = DictSet(@, u, [class |-> class,
                                                       seconds |-> remote[u].seconds,
                                                       track_info |-> res[2]]),
                             !.metrics = count(@, class),
                             !.updates = IF class = "failed" THEN @
                                         ELSE Append(@, <<res[1], to_dict(res[2])>>)]]
    /\ UNCHANGED <<now, credVars, driverVars, callerVars, poolVars, ctorVars, sheet, user_index, last_update, remote, overlap, ledger>>

\* line 84 and lines 110-122: as_completed ends (or its wait runs out, and
\* TimeoutError leaves the for statement), then the write phase or the return
EndCollect(th) ==
    /\ sync[th].pc = "collect"
    /\ \A u \in sync[th].pending : ~completes_within_wait(remote[u].seconds)
    /\ LET c == sync[th]
       IN  IF c.pending # {}
           THEN Finish(th, c, "TimeoutError", sheet)
           ELSE IF c.updates # <<>>
           THEN sync' = [sync EXCEPT ![th].pc = "batch_update"] /\ UNCHANGED ledger
           ELSE Finish(th, c, "", sheet)
    /\ UNCHANGED <<now, credVars, driverVars, callerVars, poolVars, ctorVars, sheet, user_index, last_update, remote, overlap>>

\* sync_single_user(user_id), lines 132-140
StartSingle(th) ==
    /\ th = "request"
    /\ MayStart(th)
    /\ \E u \in DOMAIN remote :
        LET res == get_current_track(remote[u].auth, remote[u].current, now)
            class == classify(res)
            c == [AtRest EXCEPT !.kind = "single", !.user_ids = <<u>>,
                                !.results = DictSet(EmptyMap, u,
                                                    [class |-> class,
                                                     seconds |-> remote[u].seconds,
                                                     track_info |-> res]),
                                !.sheet_before = sheet]
        IN  IF res = None
            THEN Finish(th, c, "", sheet)
            ELSE /\ sync' = [sync EXCEPT ![th] =
                        [c EXCEPT !.updates = <<<<u, to_dict(res)>>>>,
                                  !.pc = "batch_update"]]
                 /\ UNCHANGED ledger
    /\ UNCHANGED <<now, credVars, driverVars, callerVars, poolVars, ctorVars, sheet, user_index, last_update, remote, overlap>>

\* what a failed worksheet call does to the operation: sync_all_users
\* re-raises it, sync_single_user swallows it
Fail(th, c) == Finish(th, c, IF c.kind = "all" THEN "APIError" ELSE "", sheet)

\* batch_update, lines 122-126: the index comes from the cache, or from the
\* sheet's first column when the cache has expired
ReadIndex(th) ==
    /\ sync[th].pc = "batch_update"
    /\ LET c == sync[th]
       IN  IF is_expired(last_update, now)
           THEN \E ok \in BOOLEAN :
                   IF ok
                   THEN /\ sync' = [sync EXCEPT ![th] =
                               [c EXCEPT !.user_index = refresh_cache(sheet),
                                         !.pc = "cache_set"]]
                        /\ UNCHANGED ledger
                   ELSE Fail(th, c)
           ELSE /\ sync' = [sync EXCEPT ![th] =
                       AfterIndex([c EXCEPT !.user_index = user_index])]
                /\ UNCHANGED ledger
    /\ UNCHANGED <<now, credVars, driverVars, callerVars, poolVars, ctorVars, sheet, user_index, last_update, remote, overlap>>

\* line 124: self._cache.set(user_index)
CacheSet(th) ==
    /\ sync[th].pc = "cache_set"
    /\ user_index' = sync[th].user_index
    /\ last_update' = now
    /\ sync' = [sync EXCEPT ![th] = AfterIndex(sync[th])]
    /\ UNCHANGED <<now, credVars, driverVars, callerVars, poolVars, ctorVars, sheet, remote, overlap, ledger>>

\* where batch_update goes after the range update
AfterRangeUpdate_repeats(c) ==
    [c EXCEPT !.calls = Append(@, "batch_update"),
              !.pc = IF c.calls = <<>> THEN "range_update"
                     ELSE IF c.new_rows # <<>> THEN "append_rows" ELSE "return"]

AfterRangeUpdate(c) ==
    [c EXCEPT !.calls = Append(@, "batch_update"),
              !.pc = IF c.new_rows # <<>> THEN "append_rows" ELSE "return"]

\* lines 155-157: ws.batch_update(batch_updates)
RangeUpdate(th) ==
    /\ sync[th].pc = "range_update"
    /\ \E ok \in BOOLEAN :
        IF ok
        THEN /\ sheet' = ws_batch_update(sheet, sync[th].batch_updates)
             /\ sync' = [sync EXCEPT ![th] = AfterRangeUpdate(sync[th])]
             /\ UNCHANGED ledger
        ELSE /\ sheet' = sheet
             /\ Fail(th, [sync[th] EXCEPT !.calls = Append(@, "batch_update")])
    /\ UNCHANGED <<now, credVars, driverVars, callerVars, poolVars, ctorVars, user_index, last_update, remote, overlap>>

\* lines 160-161: ws.append_rows(new_rows)
AppendRows(th) ==
    /\ sync[th].pc = "append_rows"
    /\ \E ok \in BOOLEAN :
        IF ok
        THEN /\ sheet' = ws_append_rows(sheet, sync[th].new_rows)
             /\ sync' = [sync EXCEPT ![th].calls = Append(@, "append_rows"),
                                     ![th].pc = "record_new"]
             /\ UNCHANGED ledger
        ELSE /\ sheet' = sheet
             /\ Fail(th, [sync[th] EXCEPT !.calls = Append(@, "append_rows")])
    /\ UNCHANGED <<now, credVars, driverVars, callerVars, poolVars, ctorVars, user_index, last_update, remote, overlap>>

\* lines 164-169: the new rows go into user_index and the cache
RecordNew(th) ==
    /\ sync[th].pc = "record_new"
    /\ LET c == sync[th]
           index == record_new(c.user_index, c.new_rows)
       IN  /\ user_index' = index
           /\ last_update' = now
           /\ sync' = [sync EXCEPT ![th] = [c EXCEPT !.user_index = index, !.pc = "return"]]
    /\ UNCHANGED <<now, credVars, driverVars, callerVars, poolVars, ctorVars, sheet, remote, overlap, ledger>>

\* batch_update returns, and with it sync_all_users or sync_single_user
Return(th) ==
    /\ sync[th].pc = "return"
    /\ Finish(th, sync[th], "", sheet)
    /\ UNCHANGED <<now, credVars, driverVars, callerVars, poolVars, ctorVars, sheet, user_index, last_update, remote, overlap>>

SyncNext ==
    \/ Tick
    \/ \E th \in Threads : StartCycle(th)
    \/ \E th \in Threads : StartSingle(th)
    \/ \E th \in Threads : Collect(th)
    \/ \E th \in Threads : EndCollect(th)
    \/ \E th \in Threads : ReadIndex(th)
    \/ \E th \in Threads : CacheSet(th)
    \/ \E th \in Threads : RangeUpdate(th)
    \/ \E th \in Threads : AppendRows(th)
    \/ \E th \in Threads : RecordNew(th)
    \/ \E th \in Threads : Return(th)

SpecSync == SyncInit /\ [][SyncNext]_vars

SpecRace == RaceInit /\ [][SyncNext]_vars

SpecFetch == FetchInit /\ [][SyncNext]_vars

\* what the fetches meet when the tokens file lists both users, the first
\* user alone, or nobody
CountRemotes ==
    InitialRemotes
        \cup {[u \in {Authenticated[1]} |-> a] : a \in RemoteCases}
        \cup {[u \in {} |-> None]}

\* sync operations one after another, over any number of users
CountInit ==
    /\ now = StartTime + TickLong
    /\ CredAtRest
    /\ sheet \in InitialSheets
    /\ user_index = EmptyIndex
    /\ last_update = 0
    /\ remote \in CountRemotes
    /\ sync = [th \in Threads |-> AtRest]
    /\ ledger = <<>>
    /\ overlap = FALSE
    /\ DriverAtRest
    /\ CallersAtRest
    /\ PoolAtRest
    /\ CtorAtRest

SpecCount == CountInit /\ [][SyncNext]_vars

(***************************************************************************)
(* Sync side: properties                                                   *)
(***************************************************************************)
\* the rows of the grid ws, below the header, that carry user u
RowsOf(ws, u) == {r \in 2..Len(ws) : ws[r][1] = u}

\* the operation e got a usable outcome (a track or "Not playing") for u
Usable(e, u) == u \in DOMAIN e.results /\ e.results[u].class # "failed"

\* a cycle that returned its metrics
NormalCycle(e) == e.kind = "all" /\ e.raised = ""

\* operations i and i + 1 are two cycles that returned, one after the other
TwoCycles(i) ==
    /\ i + 1 <= Len(ledger)
    /\ NormalCycle(ledger[i])
    /\ NormalCycle(ledger[i + 1])
    /\ ledger[i + 1].sheet_before = ledger[i].sheet_after

\* two grids agree in every cell but the Last Update column
SameButTimestamp(ws1, ws2) ==
    /\ Len(ws1) = Len(ws2)
    /\ \A r \in 1..Len(ws1) : \A col \in 1..6 : ws1[r][col] = ws2[r][col]

\* the rows of the sequence rows that carry user u
Carrying(rows, u) == {k \in 1..Len(rows) : rows[k][1] = u}

\* C1 (as stated): two cycles in sequence against unchanged remote state
\* leave identical destination rows, with one row per user.
C1_IdenticalRows ==
    \A i \in 1..Len(ledger) :
        TwoCycles(i) =>
            /\ ledger[i + 1].sheet_after = ledger[i].sheet_after
            /\ \A u \in UserIds : Cardinality(RowsOf(ledger[i + 1].sheet_after, u)) <= 1

\* C1 (amended): two cycles in sequence against unchanged remote state leave
\* rows that agree in every cell but the Last Update timestamp; every user
\* with a usable outcome has exactly one row and no user has two; the first
\* cycle appends each user the sheet did not know exactly once; the second
\* cycle appends nothing and updates only the rows the users hold after the
\* first.
C1_IdempotentButTimestamp ==
    \A i \in 1..Len(ledger) :
        TwoCycles(i) =>
            LET a == ledger[i]
                b == ledger[i + 1]
            IN  /\ SameButTimestamp(a.sheet_after, b.sheet_after)
                /\ \A u \in UserIds :
                      /\ Cardinality(RowsOf(b.sheet_after, u)) <= 1
                      /\ Usable(a, u) => Cardinality(RowsOf(b.sheet_after, u)) = 1
                      /\ Usable(a, u) /\ RowsOf(a.sheet_before, u) = {}
                           => Cardinality(Carrying(a.new_rows, u)) = 1
                      /\ RowsOf(a.sheet_before, u) # {} => Carrying(a.new_rows, u) = {}
                /\ b.new_rows = <<>>
                /\ \A k \in 1..Len(b.batch_updates) :
                      b.batch_updates[k].row
                          \in RowsOf(a.sheet_after, b.batch_updates[k].values[1])
                /\ \A u \in UserIds :
                      Usable(b, u) =>
                          \E k \in 1..Len(b.batch_updates) :
                              b.batch_updates[k].values[1] = u

\* the first cycle appended a row, the second updated it later on the clock
C1_Witness ==
    \E i \in 1..Len(ledger) :
        /\ TwoCycles(i)
        /\ ledger[i].new_rows # <<>>
        /\ ledger[i + 1].batch_updates # <<>>
        /\ ledger[i + 1].calls = <<"batch_update">>
        /\ ledger[i + 1].sheet_after # ledger[i].sheet_after

\* C2: when write phases overlap, no interleaving of index read, append and
\* index update leaves two rows for one user_id.
C2_NoDuplicateRow ==
    \A u \in UserIds : Cardinality(RowsOf(sheet, u)) <= 1

\* C3: a cycle raises only when a destination call of the write phase fails,
\* whatever the outcomes of the per-user tasks.
C3_RaisesOnlyOnWriteFailure ==
    \A i \in 1..Len(ledger) :
        ledger[i].kind = "all" => ledger[i].raised \in {"", "APIError"}

\* C4: a task that takes longer than the per-task timeout is counted as
\* failed, and nothing of it is written, even when it ends within the
\* overall wait.
C4_SlowTaskCountsFailed ==
    \A i \in 1..Len(ledger) :
        \A u \in DOMAIN ledger[i].results :
            (ledger[i].kind = "all" /\ ledger[i].results[u].seconds > RESULT_TIMEOUT) =>
                /\ ledger[i].results[u].class = "failed"
                /\ Carrying(ledger[i].new_rows, u) = {}
                /\ \A k \in 1..Len(ledger[i].batch_updates) :
                      ledger[i].batch_updates[k].values[1] # u

\* the task of user u fails: no credential, a failed refresh, a fetch
\* error, or no result within the per-task timeout
TaskFails(u) ==
    \/ get_current_track(remote[u].auth, remote[u].current, now) = None
    \/ remote[u].seconds > RESULT_TIMEOUT

\* the cycle e wrote a row for user u
Wrote(e, u) ==
    \/ Carrying(e.new_rows, u) # {}
    \/ \E k \in 1..Len(e.batch_updates) : e.batch_updates[k].values[1] = u

\* C5: in a cycle whose destination calls do not fail, a user whose task
\* fails keeps its row as it was and is counted failed, and every other user
\* has its row updated or appended in that cycle.
C5_FailureContained ==
    \A i \in 1..Len(ledger) :
        LET e == ledger[i]
            users == {e.user_ids[k] : k \in 1..Len(e.user_ids)}
        IN  (e.kind = "all" /\ e.raised # "APIError") =>
                /\ e.metrics.failed = Cardinality({u \in users : TaskFails(u)})
                /\ \A u \in users :
                      IF TaskFails(u)
                      THEN /\ ~Wrote(e, u)
                           /\ \A r \in RowsOf(e.sheet_before, u) :
                                 r <= Len(e.sheet_after) /\ e.sheet_after[r] = e.sheet_before[r]
                      ELSE /\ Wrote(e, u)
                           /\ RowsOf(e.sheet_after, u) # {}

\* C16: a cycle issues at most two write calls to the destination, at most
\* one range update and at most one append, the range update first; a
\* cycle with no usable outcome issues none.
C16_AtMostTwoWrites ==
    \A i \in 1..Len(ledger) :
        ledger[i].kind = "all" =>
            /\ ledger[i].calls \in {<<>>, <<"batch_update">>, <<"append_rows">>,
                                    <<"batch_update", "append_rows">>}
            /\ (\A u \in DOMAIN ledger[i].results : ~Usable(ledger[i], u))
                  => ledger[i].calls = <<>>

\* a cycle over two users updated one row and appended the other
C16_Witness ==
    \E i \in 1..Len(ledger) :
        /\ ledger[i].kind = "all"
        /\ ledger[i].calls = <<"batch_update", "append_rows">>
        /\ Len(ledger[i].batch_updates) = 1
        /\ Len(ledger[i].new_rows) = 1

\* the cycle's counters as the manual trigger's answer would show them
CountersOf(e) ==
    [total_users |-> e.metrics.total, success |-> e.metrics.success,
     failed |-> e.metrics.failed, not_playing |-> e.metrics.not_playing]

\* C19: when a destination call of the write phase fails, the manual
\* trigger's caller gets an explicit error and the cycle's counters stay
\* observable: they are in the answer or in the scheduler's status.
C19_CountersSurviveWriteFailure ==
    \A i \in 1..Len(ledger) :
        (ledger[i].kind = "all" /\ ledger[i].raised = "APIError") =>
            LET answer == manual_sync(ledger[i].raised, ledger[i].metrics)
            IN  /\ answer.status_code = 500
                /\ \/ "metrics" \in DOMAIN answer /\ answer.metrics = CountersOf(ledger[i])
                   \/ "metrics" \in DOMAIN driver.metrics
                        /\ driver.metrics.metrics = CountersOf(ledger[i])

\* the playing user of scenario A and the idle one
ScenarioA ==
    /\ remote[Authenticated[1]] = Remote("", Playback(TRUE, SongX), FastSeconds)
    /\ remote[Authenticated[2]] = Remote("", NoPlayback, FastSeconds)

Year2020 == <<"2", "0", "2", "0">>

\* C20: scenario A: from a sheet with only the header, a cycle over a playing
\* user and an idle user leaves exactly two rows below the header, the
\* playing user's first (year 2020, joined artists, the web link) and the
\* idle user's second (sentinels), whatever the completion order.
C20_ScenarioARows ==
    \A i \in 1..Len(ledger) :
        (ScenarioA /\ NormalCycle(ledger[i]) /\ ledger[i].sheet_before = <<SHEET_HEADERS>>) =>
            LET ws == ledger[i].sheet_after
            IN  /\ Len(ws) = 3
                /\ ws[2][1] = Authenticated[1]
                /\ ws[2][2] = SongX.name
                /\ ws[2][3] = <<"Artist Y", ",", " ", "Artist W">>
                /\ ws[2][5] = Year2020
                /\ ws[2][6] = SongX.external_urls.spotify
                /\ ws[3][1] = Authenticated[2]
                /\ ws[3][2] = NotPlayingText
                /\ \A col \in 3..6 : ws[3][col] = Sentinel

\* the outcomes of cycle e, taken in the order the users were enumerated
InEnumerationOrder(e) ==
    LET usable == SelectSeq(e.user_ids, LAMBDA u : Usable(e, u))
    IN  [i \in 1..Len(usable) |-> <<usable[i], to_dict(e.results[usable[i]].track_info)>>]

\* the grid cycle e leaves when its tasks complete in enumeration order
EnumerationOrderSheet(e) ==
    LET index == refresh_cache(e.sheet_before)
        updates == InEnumerationOrder(e)
    IN  ws_append_rows(ws_batch_update(e.sheet_before, batch_updates_of(updates, index)),
                       new_rows_of(updates, index))

\* C21: the grid a cycle leaves does not depend on the order in which its
\* fetch tasks complete: with the same users and the same outcomes it is the
\* grid the enumeration order gives, the rows of newly appended users in the
\* same positions.
C21_CompletionOrderIrrelevant ==
    \A i \in 1..Len(ledger) :
        (NormalCycle(ledger[i]) /\ \A u \in DOMAIN remote : u \in DOMAIN ledger[i].results) =>
            ledger[i].sheet_after = EnumerationOrderSheet(ledger[i])

\* the rows cycle e built for user u: its range updates and its new rows
RowsBuiltFor(e, u) ==
    {e.new_rows[k] : k \in Carrying(e.new_rows, u)}
        \cup {e.batch_updates[k].values :
                 k \in {j \in 1..Len(e.batch_updates) : e.batch_updates[j].values[1] = u}}

\* the columns of a row that carry track data: track, artists, album, year, link
TrackCells == 2..6

\* C22 (as stated): the row of a user with nothing playing has the sentinel
\* U+2014 in every track-data cell, the track cell included.
C22_EveryCellSentinel ==
    \A i \in 1..Len(ledger) : \A u \in DOMAIN ledger[i].results :
        ledger[i].results[u].class = "not_playing" =>
            \A row \in RowsBuiltFor(ledger[i], u) :
                \A col \in TrackCells : row[col] = Sentinel

\* C22: the row of a user with nothing playing has the text "Not playing" in
\* the track cell and the sentinel U+2014 in the artists, album, year and
\* link cells; no track-data cell is empty.
C22_NotPlayingRow ==
    \A i \in 1..Len(ledger) : \A u \in DOMAIN ledger[i].results :
        ledger[i].results[u].class = "not_playing" =>
            \A row \in RowsBuiltFor(ledger[i], u) :
                /\ row[2] = NotPlayingText
                /\ \A col \in TrackCells \ {2} : row[col] = Sentinel
                /\ \A col \in TrackCells : row[col] # <<>>
                /\ Len(row) = Len(SHEET_HEADERS)

\* a cycle appended the row of a user with nothing playing and later
\* overwrote it with a range update
C22_Witness ==
    \E i, j \in 1..Len(ledger) : \E u \in DOMAIN remote :
        /\ i < j
        /\ Usable(ledger[i], u) /\ ledger[i].results[u].class = "not_playing"
        /\ Carrying(ledger[i].new_rows, u) # {}
        /\ "append_rows" \in {ledger[i].calls[k] : k \in 1..Len(ledger[i].calls)}
        /\ Usable(ledger[j], u) /\ ledger[j].results[u].class = "not_playing"
        /\ RowsBuiltFor(ledger[j], u) # {}
        /\ \E r \in RowsOf(sheet, u) : sheet[r] \in RowsBuiltFor(ledger[j], u)

\* C26: the Destination Index holds only row numbers from 2 up, the cached
\* one and the one each running batch_update holds: neither the rebuild from
\* the first column nor the recording of appended rows puts the header row in.
C26_IndexBelowHeader ==
    /\ \A u \in DOMAIN user_index : user_index[u] >= 2
    /\ \A th \in Threads : \A u \in DOMAIN sync[th].user_index : sync[th].user_index[u] >= 2

\* the index was rebuilt from a first column with one user row, and the
\* cycle then recorded the row it appended for the other user
C26_Witness ==
    /\ Len(ledger) >= 1
    /\ ledger[1].sheet_before = <<SHEET_HEADERS, OldRow(Authenticated[1])>>
    /\ ledger[1].calls = <<"batch_update", "append_rows">>
    /\ ledger[1].raised = ""
    /\ Carrying(ledger[1].new_rows, Authenticated[2]) # {}
    /\ DOMAIN user_index = {Authenticated[1], Authenticated[2]}
    /\ user_index[Authenticated[1]] = 2
    /\ user_index[Authenticated[2]] = 3

\* a batch_update has recorded the rows it appended and is about to return
JustRecorded(th) ==
    /\ sync[th].pc = "return"
    /\ sync[th].new_rows # <<>>
    /\ sync[th].calls # <<>>
    /\ sync[th].calls[Len(sync[th].calls)] = "append_rows"

\* no two users of the index share a row, and each user's row carries the
\* user in the first column of the grid
AgreesWithFirstColumn(index, ws) ==
    /\ \A u, v \in DOMAIN index : index[u] = index[v] => u = v
    /\ \A u \in DOMAIN index : index[u] \in 1..Len(ws) /\ ws[index[u]][1] = u

\* C27: when a cycle has appended new users, the index maps each of them to
\* the row the append placed it in: the header row, plus the user rows that
\* were there, plus its position in the appended batch. Between sync
\* operations the index is injective and agrees with the first column.
C27_IndexMatchesSheet ==
    /\ \A th \in Threads :
          JustRecorded(th) =>
              LET rows == sync[th].new_rows
                  existing_user_count == Len(sheet) - Len(rows) - 1
              IN  \A k \in 1..Len(rows) :
                      /\ user_index[rows[k][1]] = 1 + existing_user_count + k
                      /\ sheet[user_index[rows[k][1]]] = rows[k]
    /\ (\A th \in Threads : ~Running(th)) => AgreesWithFirstColumn(user_index, sheet)

\* a cycle appended two users in one batch and recorded them; an earlier
\* operation had left a user row, or the sheet had only its header
C27_Witness ==
    \E th \in Threads :
        /\ JustRecorded(th)
        /\ Len(sync[th].new_rows) = 2
        /\ Cardinality(DOMAIN user_index) = 2

\* what user u's fetch met carries no track data: no playback, a playback
\* that is not playing, a playback without item, or an item that lacks an
\* expected field
AbsentData(u) ==
    /\ remote[u].auth = ""
    /\ remote[u].current.kind # "error"
    /\ \/ remote[u].current.kind = "none"
       \/ ~remote[u].current.is_playing
       \/ falsy(remote[u].current.item)
       \/ raises_key_error(remote[u].current.item)

\* C23: a fetch that meets absent data gives the not-playing TrackInfo and
\* is counted not_playing, never failed: absent playback, a playback that is
\* not playing, a playback without item, and an item that lacks an expected
\* field (name, artists, album, release date, web link).
C23_AbsentDataIsNotPlaying ==
    \A i \in 1..Len(ledger) : \A u \in DOMAIN ledger[i].results :
        AbsentData(u) =>
            /\ ledger[i].results[u].class = "not_playing"
            /\ ledger[i].results[u].track_info # None
            /\ ledger[i].kind = "all" => ledger[i].metrics.failed = 0

\* the users cycle e classified as class
Classified(e, class) == {u \in DOMAIN e.results : e.results[u].class = class}

\* the users cycle e built a row for
WriteSet(e) ==
    {e.new_rows[k][1] : k \in 1..Len(e.new_rows)}
        \cup {e.batch_updates[k].values[1] : k \in 1..Len(e.batch_updates)}

\* C33: when sync_all_users returns, every enumerated user has been
\* classified as exactly one of success, not_playing or failed, the
\* counters count them, and total = success + not_playing + failed; the
\* rows written are those of the users counted success or not_playing; a
\* cycle with no users returns all-zero metrics and makes no remote call.
C33_EveryUserClassified ==
    \A i \in 1..Len(ledger) :
        NormalCycle(ledger[i]) =>
            LET e == ledger[i]
                m == e.metrics
            IN  /\ DOMAIN e.results = {e.user_ids[k] : k \in 1..Len(e.user_ids)}
                /\ m.total = Len(e.user_ids)
                /\ m.success = Cardinality(Classified(e, "success"))
                /\ m.not_playing = Cardinality(Classified(e, "not_playing"))
                /\ m.failed = Cardinality(Classified(e, "failed"))
                /\ m.total = m.success + m.not_playing + m.failed
                /\ WriteSet(e) = Classified(e, "success") \cup Classified(e, "not_playing")
                /\ Len(e.new_rows) + Len(e.batch_updates) = Cardinality(WriteSet(e))
                /\ e.user_ids = <<>> =>
                      /\ m = SyncMetrics(0, 0, 0, 0)
                      /\ e.calls = <<>>
                      /\ e.sheet_after = e.sheet_before

\* a cycle over two users returned with one user counted success and one
\* counted failed, and wrote the row of the first alone
C33_Witness ==
    \E i \in 1..Len(ledger) :
        /\ NormalCycle(ledger[i])
        /\ Len(ledger[i].user_ids) = 2
        /\ ledger[i].metrics.success = 1
        /\ ledger[i].metrics.failed = 1
        /\ Cardinality(WriteSet(ledger[i])) = 1
        /\ ledger[i].calls # <<>>

(***************************************************************************)
(* Periodic driver (utils/scheduler.py): state machine                     *)
(***************************************************************************)
\* times the interval trigger comes due in one behaviour
MaxFires == 3
\* times start_scheduler() starts the scheduler in one behaviour
MaxStarts == 2

\* what sync_all_users can raise into the wrapper ("" for a normal return)
CycleOutcomes == {"", "APIError", "TimeoutError"}

DriverInit ==
    /\ now = StartTime
    /\ CredAtRest
    /\ SyncAtRest
    /\ DriverAtRest
    /\ CallersAtRest
    /\ PoolAtRest
    /\ CtorAtRest

\* start_scheduler(), as main.py's lifespan (or anyone) calls it
StartScheduler ==
    /\ ~driver.stopping
    /\ already_running(driver.state) \/ driver.generation < MaxStarts
    /\ LET d == IF already_running(driver.state)
                THEN driver
                ELSE [driver EXCEPT !.listeners = @ + 1,
                                    !.jobs = @ \cup {SYNC_JOB_ID},
                                    !.state = "running",
                                    !.generation = @ + 1]
       IN  driver' = [d EXCEPT !.last_call =
                         [op |-> "start", returned |-> TRUE,
                          before |-> Snapshot(driver), after |-> Snapshot(d)]]
    /\ UNCHANGED <<now, credVars, syncVars, callerVars, poolVars, ctorVars>>

\* stop_scheduler() is called: a stopped scheduler is left alone, a running
\* one stops scheduling at once and shutdown(wait=True) begins to wait
StopScheduler ==
    /\ ~driver.stopping
    /\ LET call(returned) == [op |-> "stop", returned |-> returned,
                              before |-> Snapshot(driver), after |-> Snapshot(driver)]
       IN  IF already_stopped(driver.state)
           THEN driver' = [driver EXCEPT !.last_call = call(TRUE)]
           ELSE driver' = [driver EXCEPT !.state = "stopped", !.stopping = TRUE,
                                         !.last_call = call(FALSE)]
    /\ UNCHANGED <<now, credVars, syncVars, callerVars, poolVars, ctorVars>>

\* shutdown(wait=True) and with it stop_scheduler() return
StopReturns ==
    /\ driver.stopping
    /\ drained(driver.instances)
    /\ LET d == [driver EXCEPT !.stopping = FALSE, !.jobs = {}]
       IN  driver' = [d EXCEPT !.last_call =
                         [@ EXCEPT !.returned = TRUE, !.after = Snapshot(d)]]
    /\ UNCHANGED <<now, credVars, syncVars, callerVars, poolVars, ctorVars>>

\* the interval of the job's trigger comes due.  A running scheduler submits
\* the job unless max_instances of it run; a scheduler started again after
\* a shutdown may find its executor unable to take the job.
Fire ==
    /\ driver.fires < MaxFires
    /\ \E accepted \in BOOLEAN :
        /\ driver.generation <= 1 => accepted
        /\ LET running == driver.state = "running"
               started == running /\ may_submit(driver.instances) /\ accepted
           IN  driver' = [driver EXCEPT
                   !.fires = @ + 1,
                   !.instances = IF started THEN @ + 1 ELSE @,
                   !.last_tick = [running |-> running, started |-> started,
                                  instances_before |-> driver.instances,
                                  accepted |-> accepted,
                                  failures_before |-> driver.failures]]
    /\ UNCHANGED <<now, credVars, syncVars, callerVars, poolVars, ctorVars>>

\* _sync_job_wrapper() ends: sync_all_users returned or raised, the
\* scheduler hands the job's event to every listener
JobEnds ==
    /\ driver.instances > 0
    /\ \E raised \in CycleOutcomes :
        LET escaped == sync_job_wrapper(raised)
            m == dispatch_event(driver.metrics, driver.listeners, escaped)
        IN  driver' = [driver EXCEPT
                !.instances = @ - 1,
                !.metrics = m,
                !.failures = IF raised # "" THEN @ + 1 ELSE @,
                !.last_run = [raised |-> raised, escaped |-> escaped,
                              state_before |-> driver.state,
                              state_after |-> driver.state,
                              metrics_before |-> driver.metrics,
                              metrics_after |-> m,
                              listeners |-> driver.listeners, ended |-> TRUE]]
    /\ UNCHANGED <<now, credVars, syncVars, callerVars, poolVars, ctorVars>>

DriverNext == StartScheduler \/ StopScheduler \/ StopReturns \/ Fire \/ JobEnds

SpecDriver == DriverInit /\ [][DriverNext]_vars

(***************************************************************************)
(* The fetch pool (services/sync_service.py, _executor)                    *)
(* A cycle is named by the thread that runs it: the scheduler's job or a   *)
(* request handler's manual trigger. Tasks of one cycle are alike, so the  *)
(* pool keeps counts per cycle and the queue holds cycle names.            *)
(***************************************************************************)
\* users a cycle enumerates: a few, and so many that two cycles together
\* submit more tasks than the pool has workers
FewUsers == 2
ManyUsers == 6
PoolUsers == {FewUsers, ManyUsers}

RECURSIVE SumRunning(_, _)
SumRunning(p, S) ==
    IF S = {} THEN 0
    ELSE LET c == CHOOSE x \in S : TRUE
         IN  (p.started[c] - p.finished[c]) + SumRunning(p, S \ {c})

\* tasks a worker is executing
RunningOf(p) == SumRunning(p, Threads)

\* ThreadPoolExecutor: a task leaves the queue only for a worker that is
\* free, and there are at most max_workers workers
has_idle_worker_always(running) == TRUE

has_idle_worker(running) == running < MAX_WORKERS

PoolInit ==
    /\ now = StartTime
    /\ CredAtRest
    /\ SyncAtRest
    /\ DriverAtRest
    /\ CallersAtRest
    /\ PoolAtRest
    /\ CtorAtRest

\* sync_all_users(), lines 67-68: the cycle on thread c enumerates its users
EnumerateUsers(c) ==
    /\ pool.users[c] = 0
    /\ \E n \in PoolUsers : pool' = [pool EXCEPT !.users[c] = n]
    /\ UNCHANGED <<now, credVars, syncVars, driverVars, callerVars, ctorVars>>

\* lines 79-82: _executor.submit(_fetch_user_track, uid) for the next uid
Submit(c) ==
    /\ pool.submitted[c] < pool.users[c]
    /\ pool' = [pool EXCEPT !.submitted[c] = @ + 1, !.queue = Append(@, c)]
    /\ UNCHANGED <<now, credVars, syncVars, driverVars, callerVars, ctorVars>>

\* a free worker takes the task at the head of the queue and runs it
WorkerTakes ==
    /\ pool.queue # <<>>
    /\ has_idle_worker(RunningOf(pool))
    /\ pool' = [pool EXCEPT !.started[Head(pool.queue)] = @ + 1, !.queue = Tail(@)]
    /\ UNCHANGED <<now, credVars, syncVars, driverVars, callerVars, ctorVars>>

\* a running task of cycle c ends; its worker is free again
TaskEnds(c) ==
    /\ pool.finished[c] < pool.started[c]
    /\ pool' = [pool EXCEPT !.finished[c] = @ + 1]
    /\ UNCHANGED <<now, credVars, syncVars, driverVars, callerVars, ctorVars>>

PoolNext ==
    \/ \E c \in Threads : EnumerateUsers(c)
    \/ \E c \in Threads : Submit(c)
    \/ WorkerTakes
    \/ \E c \in Threads : TaskEnds(c)

SpecPool == PoolInit /\ [][PoolNext]_vars

\* tasks of cycle c that wait in the queue
Waiting(c) == Cardinality({i \in 1..Len(pool.queue) : pool.queue[i] = c})

\* nothing is left to submit, to start or to end
PoolQuiet ==
    /\ pool.queue = <<>>
    /\ \A c \in Threads : pool.submitted[c] = pool.users[c]
    /\ \A c \in Threads : pool.finished[c] = pool.started[c]

\* C24: a cycle submits one fetch task per enumerated user and no more; at
\* no time do more tasks execute than the pool has workers, also while the
\* scheduler's cycle and a manual one share the pool; a task waits only
\* while every worker is busy, and every submitted task is either waiting
\* or has been started once.
C24_PoolBound ==
    /\ RunningOf(pool) <= MAX_WORKERS
    /\ \A c \in Threads :
          /\ pool.submitted[c] <= pool.users[c]
          /\ pool.started[c] + Waiting(c) = pool.submitted[c]
          /\ pool.finished[c] <= pool.started[c]
    /\ (pool.queue # <<>> /\ ~ENABLED WorkerTakes) => RunningOf(pool) = MAX_WORKERS
    /\ PoolQuiet => \A c \in Threads : pool.finished[c] = pool.users[c]

\* two cycles share the pool: every worker is busy, tasks of both cycles
\* are running and tasks of both are waiting
C24_Witness ==
    /\ RunningOf(pool) = MAX_WORKERS
    /\ \A c \in Threads :
          /\ pool.started[c] > pool.finished[c]
          /\ Waiting(c) > 0
          /\ pool.submitted[c] = pool.users[c]

(***************************************************************************)
(* Periodic driver: properties                                             *)
(***************************************************************************)
\* C11: at most one driver-started cycle runs at any time; a trigger that
\* comes due while one runs starts nothing.
C11_AtMostOneCycleInFlight ==
    /\ driver.instances <= MAX_INSTANCES
    /\ driver.last_tick.instances_before >= MAX_INSTANCES => ~driver.last_tick.started

\* the trigger came due while a cycle ran, and was dropped
C11_Witness ==
    /\ driver.last_tick.running
    /\ driver.last_tick.instances_before = 1
    /\ ~driver.last_tick.started
    /\ driver.instances = 1
    /\ driver.fires >= 2

\* C12: a cycle that raises does not stop the driver: nothing leaves the
\* wrapper, the scheduler's state is as it was, and a later trigger that
\* finds the scheduler running and no cycle in flight starts a new cycle.
C12_FailureDoesNotStopDriver ==
    /\ (driver.last_run.ended /\ driver.last_run.raised # "") =>
           /\ driver.last_run.escaped = ""
           /\ driver.last_run.state_after = driver.last_run.state_before
    /\ (driver.last_tick.running /\ driver.last_tick.instances_before = 0
           /\ driver.last_tick.accepted) => driver.last_tick.started

\* a cycle started after an earlier cycle had raised
C12_Witness ==
    /\ driver.last_run.ended
    /\ driver.last_run.raised = "APIError"
    /\ driver.state = "running"
    /\ driver.last_tick.failures_before >= 1
    /\ driver.last_tick.started
    /\ driver.instances = 1

\* C13: a periodic cycle that raised is recorded as a failed run:
\* failed_runs grows, last_run_status is failed, last_error is set, and the
\* run is not counted as successful.
C13_FailureRecorded ==
    (driver.last_run.ended /\ driver.last_run.raised # "") =>
        /\ driver.last_run.metrics_after.failed_runs
               > driver.last_run.metrics_before.failed_runs
        /\ driver.last_run.metrics_after.last_run_status = "failed"
        /\ driver.last_run.metrics_after.last_error # NoValue
        /\ driver.last_run.metrics_after.successful_runs
               = driver.last_run.metrics_before.successful_runs

\* C14: Stopped -> Running -> Stopped; start() while Running and stop()
\* while Stopped change nothing (one sync job, no further listener).
C14_StartStopIdempotent ==
    LET c == driver.last_call
    IN  /\ driver.state \in {"stopped", "running"}
        /\ (c.op = "start" /\ c.before.state = "running") =>
               /\ c.after = c.before
               /\ c.after.jobs = {SYNC_JOB_ID}
        /\ (c.op = "start" /\ c.before.state = "stopped") =>
               /\ c.after.state = "running"
               /\ c.after.jobs = {SYNC_JOB_ID}
        /\ (c.op = "stop" /\ c.before.state = "stopped") => c.after = c.before
        /\ (c.op = "stop" /\ c.before.state = "running" /\ c.returned) =>
               c.after.state = "stopped"

\* start() was called while the scheduler ran a cycle
C14_Witness ==
    /\ driver.last_call.op = "start"
    /\ driver.last_call.before.state = "running"
    /\ driver.last_call.before.instances = 1
    /\ driver.last_call.before.listeners = 1
    /\ driver.state = "running"

\* C15: when stop() returns the driver is Stopped and the cycle that was in
\* flight has ended; while the driver is Stopped no cycle starts.
C15_StopDrains ==
    /\ (driver.last_call.op = "stop" /\ driver.last_call.returned) =>
           /\ driver.last_call.after.state = "stopped"
           /\ driver.last_call.after.instances = 0
    /\ ~driver.last_tick.running => ~driver.last_tick.started
    /\ (driver.state = "stopped" /\ ~driver.stopping) => driver.instances = 0

\* stop() was called with a cycle in flight and has returned
C15_Witness ==
    /\ driver.last_call.op = "stop"
    /\ driver.last_call.returned
    /\ driver.last_call.before.state = "running"
    /\ driver.last_call.before.instances = 1
    /\ driver.last_call.after.instances = 0
    /\ driver.last_run.ended

====
